---- MODULE Spec2Model ----
(***************************************************************************)
(* Model of the ToneBridge auto-transform service                          *)
(* (src/services/auto-transform/app/main.py): the rule engine and its      *)
(* trigger evaluators, and the evaluate / transform / update_config /      *)
(* create_rule handlers over the shared Redis cache and PostgreSQL store.  *)
(*                                                                         *)
(* Conventions.  Python str values on which the code does string work      *)
(* (lower(), "in", len()) are tuples of one-character strings; identifiers *)
(* that are only compared are TLA+ strings.  A float is an exact rational  *)
(* <<numerator, denominator>>.  Python None is the value None.  A Python   *)
(* exception leaving a function is the field exc of its outcome.           *)
(***************************************************************************)
EXTENDS Integers, Sequences, FiniteSets, TLC

\* ------------------------------------------------------------ Python values

None == <<"None">>

\* Python truthiness of an Optional[str] or of a list: None, "" and [] are false.
Truthy(v) == v # None /\ v # <<>>

\* dict.get(key, default)
Get(d, k, default) == IF k \in DOMAIN d THEN d[k] ELSE default

\* x in list
InList(x, l) == \E i \in 1..Len(l) : l[i] = x

\* str.lower() on the characters the model uses
LowerChar(c) ==
    CASE c = "A" -> "a" [] c = "B" -> "b" [] c = "C" -> "c" [] c = "D" -> "d"
      [] c = "F" -> "f"
      [] c = "I" -> "i" [] c = "N" -> "n" [] c = "O" -> "o" [] c = "P" -> "p"
      [] c = "R" -> "r" [] c = "S" -> "s" [] c = "T" -> "t" [] c = "U" -> "u"
      [] c = "W" -> "w" [] c = "X" -> "x" [] OTHER -> c

Lower(s) == [i \in 1..Len(s) |-> LowerChar(s[i])]

\* needle in haystack, for two str
IsSubstring(needle, hay) ==
    \E i \in 0..(Len(hay) - Len(needle)) :
        SubSeq(hay, i + 1, i + Len(needle)) = needle

\* ------------------------------------------------------------ floats

Rat(n, d) == <<n, d>>
RatLess(a, b) == a[1] * b[2] < b[1] * a[2]
RatEq(a, b) == a[1] * b[2] = b[1] * a[2]
RatMin(a, b) == IF RatLess(b, a) THEN b ELSE a
Abs(x) == IF x < 0 THEN -x ELSE x

\* ------------------------------------------------------------ trigger evaluators

\* The dict every evaluator returns; exc names the exception that left it instead.
TriggerResult(m, c, r) == [exc |-> "none", matches |-> m, confidence |-> c, reason |-> r]
Raised(e) == [exc |-> e, matches |-> FALSE, confidence |-> Rat(0, 1), reason |-> <<e>>]

\* FoundKeywords without kw.lower(): the keyword is searched as it is written
RECURSIVE FoundKeywords_AsWritten(_, _)
FoundKeywords_AsWritten(keywords, message_lower) ==
    IF keywords = <<>> THEN <<>>
    ELSE LET kw == Head(keywords)
             rest == FoundKeywords_AsWritten(Tail(keywords), message_lower)
         IN  IF IsSubstring(kw, message_lower) THEN <<kw>> \o rest ELSE rest

\* [kw for kw in keywords if kw.lower() in message_lower]
RECURSIVE FoundKeywords(_, _)
FoundKeywords(keywords, message_lower) ==
    IF keywords = <<>> THEN <<>>
    ELSE LET kw == Head(keywords)
             rest == FoundKeywords(Tail(keywords), message_lower)
         IN  IF IsSubstring(Lower(kw), message_lower) THEN <<kw>> \o rest ELSE rest

_check_keywords(message, keywords) ==
    LET message_lower == Lower(message)
        found_keywords == FoundKeywords(keywords, message_lower)
    IN  IF found_keywords # <<>>
        THEN TriggerResult(TRUE,
                           RatMin(Rat(1, 1), Rat(Len(found_keywords), Len(keywords))),
                           <<"Contains keywords">> \o found_keywords)
        ELSE TriggerResult(FALSE, Rat(0, 1), <<"No keywords found">>)

\* _check_sentiment with <= and >= for the two strict comparisons
_check_sentiment_Inclusive(polarity_outcome, config) ==
    LET polarity == polarity_outcome.value
        threshold == Get(config, "threshold", 0)
        operator == Get(config, "operator", "less_than")
        matches ==
            \/ operator = "less_than" /\ polarity <= threshold
            \/ operator = "greater_than" /\ polarity >= threshold
            \/ operator = "equals" /\ Abs(polarity - threshold) < 10
    IN  IF polarity_outcome.exc # "none"
        THEN TriggerResult(FALSE, Rat(0, 1), <<"Sentiment check failed">>)
        ELSE IF matches
        THEN TriggerResult(TRUE,
                           RatMin(Rat(1, 1), Rat(Abs(polarity - threshold), 200)),
                           <<"Sentiment polarity", polarity, operator, threshold>>)
        ELSE TriggerResult(FALSE, Rat(0, 1), <<"Sentiment check failed">>)

\* TextBlob(message).sentiment.polarity is the library's function of the text:
\* the context carries its outcome for the message, [exc, value], value in
\* hundredths; thresholds are in hundredths too.
_check_sentiment(polarity_outcome, config) ==
    LET polarity == polarity_outcome.value
        threshold == Get(config, "threshold", 0)
        operator == Get(config, "operator", "less_than")
        matches ==
            \/ operator = "less_than" /\ polarity < threshold
            \/ operator = "greater_than" /\ polarity > threshold
            \/ operator = "equals" /\ Abs(polarity - threshold) < 10
    IN  IF polarity_outcome.exc # "none"
        THEN TriggerResult(FALSE, Rat(0, 1), <<"Sentiment check failed">>)
        ELSE IF matches
        THEN TriggerResult(TRUE,
                           RatMin(Rat(1, 1), Rat(Abs(polarity - threshold), 200)),
                           <<"Sentiment polarity", polarity, operator, threshold>>)
        ELSE TriggerResult(FALSE, Rat(0, 1), <<"Sentiment check failed">>)

\* set(recipient_ids) & set(target_ids)
ListSet(l) == {l[i] : i \in 1..Len(l)}

_check_recipients(recipient_ids, config) ==
    LET target_roles == Get(config, "roles", <<>>)
        target_ids == Get(config, "ids", <<>>)
        matching_ids == ListSet(recipient_ids) \cap ListSet(target_ids)
    IN  IF target_ids # <<>> /\ matching_ids # {}
        THEN TriggerResult(TRUE, Rat(9, 10), <<"Recipient match", matching_ids>>)
        ELSE IF target_roles # <<>>
        THEN TriggerResult(TRUE, Rat(8, 10), <<"Recipient role match">> \o target_roles)
        ELSE TriggerResult(FALSE, Rat(0, 1), <<"No recipient match">>)

SUPPORT == <<"s", "u", "p", "p", "o", "r", "t">>

_check_channel(channel_id, config) ==
    LET channel_type == Get(config, "type", None)
        channel_ids == Get(config, "ids", <<>>)
    IN  IF ~Truthy(channel_id)
        THEN TriggerResult(FALSE, Rat(0, 1), <<"No channel specified">>)
        ELSE IF channel_ids # <<>> /\ InList(channel_id, channel_ids)
        THEN TriggerResult(TRUE, Rat(1, 1), <<"Channel match", channel_id>>)
        ELSE IF /\ Truthy(channel_type)
                /\ channel_type = SUPPORT
                /\ IsSubstring(SUPPORT, Lower(channel_id))
        THEN TriggerResult(TRUE, Rat(8, 10), <<"Channel type match", channel_type>>)
        ELSE TriggerResult(FALSE, Rat(0, 1), <<"No channel match">>)

\* time.fromisoformat(s) for the form "HH:MM": the time of day in minutes, or
\* ValueError for a string that is not of that form or is out of range.
DigitChars == <<"0", "1", "2", "3", "4", "5", "6", "7", "8", "9">>
IsDigit(c) == \E i \in 1..Len(DigitChars) : DigitChars[i] = c
DigitVal(c) == (CHOOSE i \in 1..Len(DigitChars) : DigitChars[i] = c) - 1

fromisoformat(s) ==
    IF /\ Len(s) = 5
       /\ s[3] = ":"
       /\ \A i \in {1, 2, 4, 5} : IsDigit(s[i])
       /\ DigitVal(s[1]) * 10 + DigitVal(s[2]) <= 23
       /\ DigitVal(s[4]) * 10 + DigitVal(s[5]) <= 59
    THEN [exc |-> "none",
          value |-> (DigitVal(s[1]) * 10 + DigitVal(s[2])) * 60
                    + DigitVal(s[4]) * 10 + DigitVal(s[5])]
    ELSE [exc |-> "ValueError", value |-> 0]

\* current_time is datetime.now().time(), in minutes of the day.
_check_time(current_time, config) ==
    LET after_str == Get(config, "after", None)
        before_str == Get(config, "before", None)
        after_time == fromisoformat(after_str)
        before_time == fromisoformat(before_str)
    IN  IF Truthy(after_str) /\ after_time.exc # "none"
        THEN Raised(after_time.exc)
        ELSE IF Truthy(after_str) /\ current_time < after_time.value
        THEN TriggerResult(FALSE, Rat(0, 1), <<"Before time window">>)
        ELSE IF Truthy(before_str) /\ before_time.exc # "none"
        THEN Raised(before_time.exc)
        ELSE IF Truthy(before_str) /\ current_time > before_time.value
        THEN TriggerResult(FALSE, Rat(0, 1), <<"After time window">>)
        ELSE TriggerResult(TRUE, Rat(9, 10), <<"Within time window", current_time>>)

\* _check_patterns with the except clause outside the loop: the scan ends at
\* the first malformed pattern
RECURSIVE _check_patterns_StopAtMalformed(_, _)
_check_patterns_StopAtMalformed(message, patterns) ==
    IF patterns = <<>> \/ ~Head(patterns).ok
    THEN TriggerResult(FALSE, Rat(0, 1), <<"No pattern match">>)
    ELSE IF IsSubstring(Lower(Head(patterns).lit), Lower(message))
    THEN TriggerResult(TRUE, Rat(9, 10), <<"Pattern match", Head(patterns)>>)
    ELSE _check_patterns_StopAtMalformed(message, Tail(patterns))

\* A pattern string is [ok, lit]: re.compile raises re.error when ok is false,
\* and a compiled pattern is the literal lit searched with re.IGNORECASE.
RECURSIVE _check_patterns(_, _)
_check_patterns(message, patterns) ==
    IF patterns = <<>>
    THEN TriggerResult(FALSE, Rat(0, 1), <<"No pattern match">>)
    ELSE LET pattern_str == Head(patterns)
         IN  IF pattern_str.ok /\ IsSubstring(Lower(pattern_str.lit), Lower(message))
             THEN TriggerResult(TRUE, Rat(9, 10), <<"Pattern match", pattern_str>>)
             ELSE _check_patterns(message, Tail(patterns))

_evaluate_trigger(context, trigger_type, trigger_value, current_time) ==
    CASE trigger_type = "keyword" ->
            _check_keywords(context.message, Get(trigger_value, "keywords", <<>>))
      [] trigger_type = "sentiment" ->
            _check_sentiment(context.polarity, trigger_value)
      [] trigger_type = "recipient" ->
            _check_recipients(context.recipient_ids, trigger_value)
      [] trigger_type = "channel" ->
            _check_channel(context.channel_id, trigger_value)
      [] trigger_type = "time" ->
            _check_time(current_time, trigger_value)
      [] trigger_type = "pattern" ->
            _check_patterns(context.message, Get(trigger_value, "patterns", <<>>))
      [] OTHER -> TriggerResult(FALSE, Rat(0, 1), <<"Unknown trigger type">>)

\* ------------------------------------------------------------ rule resolution

\* Excluded with the membership test dropped: no allow-list filters
Excluded_Never(allow_list, value) == FALSE

\* rule['platforms'] and context.platform not in rule['platforms'], and the
\* same for rule['channels'] and context.channel_id
Excluded(allow_list, value) == allow_list # <<>> /\ ~InList(value, allow_list)

\* The loop of evaluate_rules over rules[i..]: the matches appended so far, the
\* number of _evaluate_trigger calls made, and the exception that ended it.
RECURSIVE CollectMatches(_, _, _, _, _)
CollectMatches(context, rules, current_time, matches, evals) ==
    IF rules = <<>>
    THEN [exc |-> "none", matches |-> matches, evals |-> evals]
    ELSE LET rule == Head(rules)
             rest == Tail(rules)
         IN  IF ~rule.enabled
             THEN CollectMatches(context, rest, current_time, matches, evals)
             ELSE IF Excluded(rule.platforms, context.platform)
             THEN CollectMatches(context, rest, current_time, matches, evals)
             ELSE IF Excluded(rule.channels, context.channel_id)
             THEN CollectMatches(context, rest, current_time, matches, evals)
             ELSE LET match_result == _evaluate_trigger(context, rule.trigger_type,
                                                        rule.trigger_value, current_time)
                  IN  IF match_result.exc # "none"
                      THEN [exc |-> match_result.exc, matches |-> matches,
                            evals |-> evals + 1]
                      ELSE IF match_result.matches
                      THEN CollectMatches(context, rest, current_time,
                               Append(matches, [rule |-> rule,
                                                confidence |-> match_result.confidence,
                                                reason |-> match_result.reason]),
                               evals + 1)
                      ELSE CollectMatches(context, rest, current_time, matches, evals + 1)

\* KeyLess with the two components of the key swapped
KeyLess_ConfidenceFirst(x, y) ==
    \/ RatLess(x.confidence, y.confidence)
    \/ RatEq(x.confidence, y.confidence) /\ x.rule.priority < y.rule.priority

\* key=lambda x: (x['rule']['priority'], x['confidence']), compared as tuples
KeyLess(x, y) ==
    \/ x.rule.priority < y.rule.priority
    \/ x.rule.priority = y.rule.priority /\ RatLess(x.confidence, y.confidence)

\* list.sort(key=..., reverse=True): a stable sort, descending; elements with
\* equal keys keep their order.
RECURSIVE InsertSorted(_, _)
InsertSorted(sorted, x) ==
    IF sorted = <<>> THEN <<x>>
    ELSE IF KeyLess(Head(sorted), x)
         THEN <<x>> \o sorted
         ELSE <<Head(sorted)>> \o InsertSorted(Tail(sorted), x)

RECURSIVE SortMatches(_)
SortMatches(matches) ==
    IF matches = <<>> THEN <<>>
    ELSE InsertSorted(SortMatches(SubSeq(matches, 1, Len(matches) - 1)),
                      matches[Len(matches)])

TransformationResult(best_match) ==
    [should_transform |-> TRUE,
     rule_id |-> best_match.rule.id,
     rule_name |-> best_match.rule.rule_name,
     transformation_type |-> best_match.rule.transformation_type,
     transformation_intensity |-> best_match.rule.transformation_intensity,
     transformation_options |-> best_match.rule.transformation_options,
     confidence |-> best_match.confidence,
     reason |-> best_match.reason]

\* The None that evaluate_rules returns when nothing matched ("if result:" is
\* false for it).
NoResult == [should_transform |-> FALSE]

\* RuleEngine.evaluate_rules: [exc, result, evals]; result is NoResult or the
\* TransformationResult of the best match.
evaluate_rules(context, rules, current_time) ==
    LET collected == CollectMatches(context, rules, current_time, <<>>, 0)
        matches == SortMatches(collected.matches)
    IN  IF collected.exc # "none"
        THEN [exc |-> collected.exc, result |-> NoResult, evals |-> collected.evals]
        ELSE IF matches = <<>>
        THEN [exc |-> "none", result |-> NoResult, evals |-> collected.evals]
        ELSE [exc |-> "none", result |-> TransformationResult(matches[1]),
              evals |-> collected.evals]

\* ------------------------------------------------------------ bounds and inputs

MaxRequests == 3
MaxTicks == 1
TickStep == 60
DayStart == 600

CACHE_TTL == 300
LOG_WINDOW == 60
DEFAULT_MIN_MESSAGE_LENGTH == 50

Tenants == {"T1", "T2"}
Users == {"U1", "U2"}
Slots == {1, 2}

MSG_LONG == <<"F", "i", "x", " ", "N", "O", "W">>
MSG_SHORT == <<"o", "k">>
KW_NOW == <<"n", "o", "w">>
KW_BAD == <<"b", "a", "d">>
KW_FIX == <<"f", "i", "x">>
CH_GENERAL == <<"C", "1">>
CH_SUPPORT == <<"C", "-", "S", "U", "P", "P", "O", "R", "T">>

Ctx(msg, user, tenant, platform, channel, recipients, pol, role) ==
    [message |-> msg, user_id |-> user, tenant_id |-> tenant, platform |-> platform,
     channel_id |-> channel, recipient_ids |-> recipients,
     polarity |-> pol, metadata |-> [role |-> role]]

Polarity(v) == [exc |-> "none", value |-> v]

\* TransformRule, with the defaults of the pydantic model
Rule(name, priority, ttype, tvalue, platforms, channels, roles) ==
    [rule_name |-> name, enabled |-> TRUE, priority |-> priority,
     trigger_type |-> ttype, trigger_value |-> tvalue,
     transformation_type |-> "soften", transformation_intensity |-> 2,
     transformation_options |-> <<>>,
     platforms |-> platforms, channels |-> channels, user_roles |-> roles]

\* The message contexts the clients of the service send.
Contexts ==
    {Ctx(MSG_LONG, "U1", "T1", "slack", None, <<>>, Polarity(-40), "member"),
     Ctx(MSG_SHORT, "U1", "T1", "slack", None, <<>>, Polarity(0), "member"),
     Ctx(MSG_LONG, "U2", "T1", "slack", CH_GENERAL, <<>>, Polarity(-40), "admin"),
     Ctx(MSG_LONG, "U1", "T1", "teams", None, <<>>, Polarity(-40), "member"),
     Ctx(MSG_LONG, "U1", "T2", "slack", None, <<>>, Polarity(-40), "member")}

\* The rules the administrators create.
BAD_TIME == <<"2", "5", ":", "9", "9">>

RuleInputs ==
    {[tenant_id |-> "T1",
      rule |-> Rule("kw-fix", 10, "keyword", [keywords |-> <<KW_FIX>>],
                    <<>>, <<CH_SUPPORT>>, <<>>)],
     [tenant_id |-> "T1",
      rule |-> Rule("office-hours", 1, "time", [after |-> BAD_TIME], <<>>, <<>>, <<>>)],
     [tenant_id |-> "T2",
      rule |-> Rule("kw-fix", 10, "keyword", [keywords |-> <<KW_FIX>>],
                    <<>>, <<>>, <<>>)]}

\* The configurations the administrators put.
ConfigInputs ==
    {[tenant_id |-> "T1", enabled |-> TRUE, min_message_length |-> 5],
     [tenant_id |-> "T1", enabled |-> FALSE, min_message_length |-> 1],
     [tenant_id |-> "T2", enabled |-> TRUE, min_message_length |-> 1]}

\* The outcomes of the call to the external transform service.
CallOutcomes == {"ok", "http_error", "timeout", "success_false"}

\* ------------------------------------------------------------ store and cache values

\* An id column is a UUID in the store; json.dumps(..., default=str) turns it
\* into its string form, and SQL compares the two forms by value.
Uuid(x) == [kind |-> "uuid", v |-> x]
Str(id) == [kind |-> "str", v |-> id.v]

NoRow == [present |-> FALSE]
ConfigRow(tenant, enabled, min_len) ==
    [present |-> TRUE, id |-> Uuid(tenant), tenant_id |-> tenant,
     enabled |-> enabled, min_message_length |-> min_len]

RuleRow(config_id, rule) ==
    [n \in DOMAIN rule \cup {"id", "config_id"} |->
        IF n = "id" THEN Uuid(rule.rule_name)
        ELSE IF n = "config_id" THEN config_id
        ELSE rule[n]]

\* json.loads(json.dumps(row, default=str)) for a config row and for a rule list
JsonConfig(row) == [row EXCEPT !.id = Str(row.id)]
JsonRule(row) == [row EXCEPT !.id = Str(row.id), !.config_id = Str(row.config_id)]
JsonRules(rows) == [i \in 1..Len(rows) |-> JsonRule(rows[i])]

Absent == [present |-> FALSE]
Entry(val, expires) == [present |-> TRUE, val |-> val, expires |-> expires]

\* ------------------------------------------------------------ state

VARIABLES
    now,            \* wall clock, seconds (NOW() of the store, the cache's clock)
    ticks,          \* clock steps taken
    cacheUp,        \* the Redis server answers
    cache_config,   \* auto_transform:config:{tenant_id}
    cache_rules,    \* auto_transform:rules:{tenant_id}
    db_configs,     \* auto_transform_configs, by tenant_id
    db_rules,       \* auto_transform_rules
    logs,           \* auto_transform_logs, in insertion order
    metrics,        \* the Redis metric hashes
    req,            \* the request each worker is serving, with its locals
    started,        \* requests accepted so far
    acked,          \* tenants for which an update_config has returned success
    eng,            \* a stand-alone application of RuleEngine.evaluate_rules
    trig,           \* a stand-alone application of RuleEngine._evaluate_trigger
    lim,            \* a RateLimiter of the integration adapters and its callers
    sdk,            \* the SDK client's AutoTransformService.evaluate calls
    wsc             \* the SDK's WebSocketClient and its connection thread

vars == <<now, ticks, cacheUp, cache_config, cache_rules, db_configs, db_rules,
          logs, metrics, req, started, acked, eng, trig, lim, sdk, wsc>>

\* The parts of the state outside the service's handlers
sideVars == <<eng, trig, lim, sdk, wsc>>

storeVars == <<db_configs, db_rules, logs>>
cacheVars == <<cache_config, cache_rules, metrics>>
clockVars == <<now, ticks, cacheUp>>

NoContext == Ctx(<<>>, "U1", "T1", "slack", None, <<>>, Polarity(0), "member")

\* A worker with no request.  The fields after body are bookkeeping of what the
\* request did, read by the properties only: for a transform, calls counts the
\* requests made to the external service and sent lists their JSON bodies; for
\* an administrative write,
\* committed and deleted say that db.commit() and redis_client.delete() have
\* run, had_entry that the key was in the cache when it was deleted and
\* entry_gone that it was not there after the delete.
IdleReq ==
    [pc |-> "idle", op |-> "none", context |-> NoContext,
     config_in |-> [tenant_id |-> "T1", enabled |-> FALSE, min_message_length |-> 0],
     rule_in |-> [tenant_id |-> "T1", rule |-> <<>>],
     transformation |-> NoResult,
     config |-> NoRow, rules |-> <<>>, result |-> NoResult,
     call |-> "none", calls |-> 0, sent |-> <<>>,
     status |-> 0, body |-> [kind |-> "none"],
     cfg_from |-> "none", seen |-> NoRow, rules_read |-> FALSE,
     read_settled |-> FALSE, store_at_read |-> NoRow,
     evals |-> 0, evaluated |-> FALSE, current_time |-> 0,
     row |-> 0, updated |-> {}, matched |-> {}, cache_failed |-> FALSE,
     committed |-> FALSE, deleted |-> FALSE, had_entry |-> FALSE,
     entry_gone |-> FALSE, tenant_id |-> "none", metrics_failed |-> FALSE]

\* datetime.now().time(), minutes of the day
CurrentTime == (DayStart + now \div 60) % 1440

EngIdle == [pc |-> "off", context |-> NoContext, rules |-> <<>>, current_time |-> 0,
            out |-> [exc |-> "none", result |-> NoResult, evals |-> 0]]

TrigIdle == [pc |-> "off", context |-> NoContext, trigger_type |-> "none",
             trigger_value |-> <<>>, current_time |-> 0,
             out |-> TriggerResult(FALSE, Rat(0, 1), <<"none">>)]

\* The callers of one RateLimiter, tasks of one event loop.
Callers == {1, 2, 3}

\* RateLimiter.__init__ (last_request_time = 0, an unlocked asyncio.Lock) with
\* the event loop's clock at t and no task calling acquire yet.  waiters is the
\* lock's queue and woken the waiter whose future the last release has set.  pc,
\* current_time and wake are the position and the locals of each caller's
\* acquire, slept and waited say that it suspended in asyncio.sleep and on the
\* lock, and returned lists the clock readings at which acquire calls completed.
LimNew(t) ==
    [clock |-> t, last_request_time |-> 0, locked |-> FALSE, waiters |-> <<>>,
     woken |-> 0,
     pc |-> [c \in Callers |-> "idle"],
     current_time |-> [c \in Callers |-> 0],
     wake |-> [c \in Callers |-> 0],
     slept |-> [c \in Callers |-> FALSE],
     waited |-> [c \in Callers |-> FALSE],
     returned |-> <<>>]

LimOff == [LimNew(0) EXCEPT !.pc = [c \in Callers |-> "off"]]

\* A WebSocketClient after __init__ and before connect(): the constructor's
\* reconnect and max_reconnect_attempts, the state attributes is_connected and
\* reconnect_attempts, the stop flag, and the position of the connection thread.
\* connects counts the calls of ws.run_forever() made since the connection was
\* last open, and lost says that an open connection has been lost.
WsNew(reconnect, max_reconnect_attempts) ==
    [pc |-> "new", reconnect |-> reconnect,
     max_reconnect_attempts |-> max_reconnect_attempts,
     is_connected |-> FALSE, reconnect_attempts |-> 0, stop_flag |-> FALSE,
     connects |-> 0, lost |-> FALSE]

WsOff == [WsNew(TRUE, 0) EXCEPT !.pc = "off"]

\* The SDK client before any call: the requests it has sent, and the argument
\* and the outcome of its last call of evaluate.
SdkIdle == [sent |-> 0, context_data |-> <<>>, outcome |-> "none"]

Init ==
    /\ now = 0
    /\ ticks = 0
    /\ cacheUp = TRUE
    /\ cache_config = [t \in Tenants |-> Absent]
    /\ cache_rules = [t \in Tenants |-> Absent]
    /\ db_configs = [t \in Tenants |-> IF t = "T1" THEN ConfigRow(t, TRUE, 1) ELSE NoRow]
    /\ db_rules = {RuleRow(Uuid("T1"),
                     Rule("kw-now", 5, "keyword", [keywords |-> <<KW_NOW, KW_BAD>>],
                          <<"slack", "discord">>, <<>>, <<>>))}
    /\ logs = <<>>
    /\ metrics = <<>>
    /\ req = [s \in Slots |-> IdleReq]
    /\ started = 0
    /\ acked = {}
    /\ eng = EngIdle
    /\ trig = TrigIdle
    /\ lim = LimOff
    /\ sdk = SdkIdle
    /\ wsc = WsOff

\* ------------------------------------------------------------ responses

Free(s) == req[s].pc \in {"idle", "done"}

\* A worker takes a request only when no lower-numbered worker is free.
Accepts(s) ==
    /\ Free(s)
    /\ \A s2 \in Slots : s2 < s => ~Free(s2)
    /\ started < MaxRequests

Respond(r, status, body) == [r EXCEPT !.pc = "done", !.status = status, !.body = body]

Negative(reason) ==
    [kind |-> "decision", should_transform |-> FALSE, reason |-> <<reason>>]

\* raise HTTPException(status_code=500, detail=str(e))
Error500(r, detail) == Respond(r, 500, [kind |-> "error", detail |-> detail])

\* ------------------------------------------------------------ evaluate_message

\* redis_client.get(key): the entry, if it is there and its TTL has not elapsed
CacheGet(cache, t) ==
    IF cache[t].present /\ now < cache[t].expires THEN cache[t] ELSE Absent

\* redis_client.setex(key, 300, json.dumps(value, default=str))
CacheSetex(cache, t, json) == [cache EXCEPT ![t] = Entry(json, now + CACHE_TTL)]

\* TooShort with the comparison turned round
TooShort_Reversed(message, config) == Len(message) > config.min_message_length

\* len(context.message) < config['min_message_length']
TooShort(message, config) == Len(message) < config.min_message_length

\* Lines 358-362: with the config in hand, the length check, then on to the rules.
WithConfig(r, config, from) ==
    LET r1 == [r EXCEPT !.config = config, !.cfg_from = from, !.seen = config]
    IN  IF TooShort(r.context.message, config)
        THEN Respond(r1, 200, Negative("Message too short"))
        ELSE [r1 EXCEPT !.pc = "get_rules"]

\* Lines 383-412 up to the INSERT: with the rules in hand, the empty check and
\* the rule engine.
WithRules(r, rules) ==
    LET r1 == [r EXCEPT !.rules = rules, !.rules_read = TRUE]
        out == evaluate_rules(r.context, rules, CurrentTime)
        r2 == [r1 EXCEPT !.evals = out.evals, !.evaluated = TRUE,
                         !.current_time = CurrentTime]
    IN  IF rules = <<>>
        THEN Respond(r1, 200, Negative("No active rules"))
        ELSE IF out.exc # "none"
        THEN Error500(r2, out.exc)
        ELSE IF out.result.should_transform
        THEN [r2 EXCEPT !.pc = "insert_log", !.result = out.result]
        ELSE Respond(r2, 200, Negative("No matching rules"))

\* An update_config for tenant t has committed or is about to, and has not returned.
UpdateInFlight(t) ==
    \E s \in Slots : /\ req[s].op = "update_config"
                     /\ req[s].pc \in {"commit", "invalidate"}
                     /\ req[s].config_in.tenant_id = t

StartEvaluate(s, context) ==
    /\ Accepts(s)
    /\ req' = [req EXCEPT ![s] = [IdleReq EXCEPT !.pc = "get_config",
                                             !.op = "evaluate",
                                             !.context = context]]
    /\ started' = started + 1
    /\ UNCHANGED <<clockVars, cacheVars, storeVars, acked, sideVars>>

\* Line 340: cached_config = redis_client.get(cache_key), and a hit's lines 343-360.
EvalGetConfig(s) ==
    LET r == req[s]
        t == r.context.tenant_id
        hit == CacheGet(cache_config, t)
        r1 == [r EXCEPT !.read_settled = (t \in acked /\ ~UpdateInFlight(t)),
                        !.store_at_read = db_configs[t]]
    IN  /\ r.pc = "get_config"
        /\ req' = [req EXCEPT ![s] =
                IF ~cacheUp THEN Error500([r EXCEPT !.cache_failed = TRUE], "redis")
                ELSE IF hit.present THEN WithConfig(r1, hit.val, "cache")
                ELSE [r EXCEPT !.pc = "load_config"]]
        /\ UNCHANGED <<clockVars, cacheVars, storeVars, started, acked, sideVars>>

\* Disabled without the test of the enabled column
Disabled_AbsentOnly(result) == ~result.present

\* Disabled with the test of the enabled column turned round
Disabled_Inverted(result) == ~result.present \/ result.enabled

\* not result or not result['enabled']
Disabled(result) == ~result.present \/ ~result.enabled

\* Lines 346-354: the SELECT on auto_transform_configs and the enabled check.
EvalLoadConfig(s) ==
    LET r == req[s]
        t == r.context.tenant_id
        result == db_configs[t]
        r1 == [r EXCEPT !.read_settled = (t \in acked /\ ~UpdateInFlight(t)),
                        !.store_at_read = result, !.seen = result,
                        !.cfg_from = "store"]
    IN  /\ r.pc = "load_config"
        /\ req' = [req EXCEPT ![s] =
                IF Disabled(result)
                THEN Respond(r1, 200, Negative("Auto-transform disabled"))
                ELSE [r1 EXCEPT !.pc = "cache_config", !.config = result]]
        /\ UNCHANGED <<clockVars, cacheVars, storeVars, started, acked, sideVars>>

\* Line 356: redis_client.setex(cache_key, 300, ...), then lines 358-360.
EvalCacheConfig(s) ==
    LET r == req[s]
        t == r.context.tenant_id
    IN  /\ r.pc = "cache_config"
        /\ IF cacheUp
           THEN /\ cache_config' = CacheSetex(cache_config, t, JsonConfig(r.config))
                /\ req' = [req EXCEPT ![s] = WithConfig(r, r.config, "store")]
           ELSE /\ cache_config' = cache_config
                /\ req' = [req EXCEPT ![s] =
                              Error500([r EXCEPT !.cache_failed = TRUE], "redis")]
        /\ UNCHANGED <<clockVars, cache_rules, metrics, storeVars, started, acked, sideVars>>

\* Line 364: cached_rules = redis_client.get(rules_cache_key), and a hit's
\* lines 367 and 383-388.
EvalGetRules(s) ==
    LET r == req[s]
        t == r.context.tenant_id
        hit == CacheGet(cache_rules, t)
    IN  /\ r.pc = "get_rules"
        /\ req' = [req EXCEPT ![s] =
                IF ~cacheUp THEN Error500([r EXCEPT !.cache_failed = TRUE], "redis")
                ELSE IF hit.present THEN WithRules(r, hit.val)
                ELSE [r EXCEPT !.pc = "load_rules"]]
        /\ UNCHANGED <<clockVars, cacheVars, storeVars, started, acked, sideVars>>

\* The orders in which ORDER BY priority DESC may return the rows: rows of equal
\* priority come in any order.
Orderings(rows) ==
    {o \in [1..Cardinality(rows) -> rows] :
        /\ \A i, j \in 1..Cardinality(rows) : i # j => o[i] # o[j]
        /\ \A i, j \in 1..Cardinality(rows) : i < j => o[i].priority >= o[j].priority}

\* Lines 370-379: the SELECT on auto_transform_rules of the config, enabled only.
EvalLoadRules(s) ==
    LET r == req[s]
        rows == {x \in db_rules : x.config_id.v = r.config.id.v /\ x.enabled}
    IN  /\ r.pc = "load_rules"
        /\ \E results \in Orderings(rows) :
              req' = [req EXCEPT ![s] = [r EXCEPT !.pc = "cache_rules",
                                                  !.rules = results]]
        /\ UNCHANGED <<clockVars, cacheVars, storeVars, started, acked, sideVars>>

\* Line 381: redis_client.setex(rules_cache_key, 300, ...), then lines 383-388.
EvalCacheRules(s) ==
    LET r == req[s]
        t == r.context.tenant_id
    IN  /\ r.pc = "cache_rules"
        /\ IF cacheUp
           THEN /\ cache_rules' = CacheSetex(cache_rules, t, JsonRules(r.rules))
                /\ req' = [req EXCEPT ![s] = WithRules(r, r.rules)]
           ELSE /\ cache_rules' = cache_rules
                /\ req' = [req EXCEPT ![s] =
                              Error500([r EXCEPT !.cache_failed = TRUE], "redis")]
        /\ UNCHANGED <<clockVars, cache_config, metrics, storeVars, started, acked, sideVars>>

\* LogRow with the status of a processed row
LogRow_Transformed(context, result) ==
    [tenant_id |-> context.tenant_id, rule_id |-> result.rule_id,
     user_id |-> context.user_id, original_message |-> context.message,
     platform |-> context.platform, channel_id |-> context.channel_id,
     status |-> "transformed", triggered_at |-> now,
     transformed_message |-> None, error_message |-> None, processed_at |-> None,
     context |-> context, result |-> result]

\* The row of lines 391-407; context and result are kept with it for the
\* transform call that follows.
LogRow(context, result) ==
    [tenant_id |-> context.tenant_id, rule_id |-> result.rule_id,
     user_id |-> context.user_id, original_message |-> context.message,
     platform |-> context.platform, channel_id |-> context.channel_id,
     status |-> "triggered", triggered_at |-> now,
     transformed_message |-> None, error_message |-> None, processed_at |-> None,
     context |-> context, result |-> result]

\* Lines 391-410: INSERT INTO auto_transform_logs, commit, return result.dict().
EvalInsertLog(s) ==
    LET r == req[s]
    IN  /\ r.pc = "insert_log"
        /\ logs' = Append(logs, LogRow(r.context, r.result))
        /\ req' = [req EXCEPT ![s] =
                      Respond([r EXCEPT !.row = Len(logs) + 1], 200,
                              [kind |-> "decision", should_transform |-> TRUE,
                               result |-> r.result])]
        /\ UNCHANGED <<clockVars, cacheVars, db_configs, db_rules, started, acked, sideVars>>

\* ------------------------------------------------------------ auto_transform

\* The client calls transform with the context and the result of an evaluate
\* that returned should_transform=true; row is the log row of that evaluate.
StartTransform(s, i) ==
    /\ Accepts(s)
    /\ req' = [req EXCEPT ![s] = [IdleReq EXCEPT !.pc = "call",
                                             !.op = "transform",
                                             !.context = logs[i].context,
                                             !.transformation = logs[i].result,
                                             !.row = i]]
    /\ started' = started + 1
    /\ UNCHANGED <<clockVars, cacheVars, storeVars, acked, sideVars>>

\* Lines 430-435: the JSON body of the request to the transform service
LlmRequest(context, transformation) ==
    [text |-> context.message,
     transformation_type |-> transformation.transformation_type,
     intensity |-> transformation.transformation_intensity,
     options |-> transformation.transformation_options]

\* Lines 428-437: client.post(LLM_SERVICE_URL/api/v1/transform, json=...)
TransformCall(s) ==
    LET r == req[s]
    IN  /\ r.pc = "call"
        /\ req' = [req EXCEPT ![s] =
                      [r EXCEPT !.pc = "await", !.calls = @ + 1,
                                !.sent = Append(@, LlmRequest(r.context,
                                                              r.transformation))]]
        /\ UNCHANGED <<clockVars, cacheVars, storeVars, started, acked, sideVars>>

\* TransformReturn with one retry of a call that failed
TransformReturn_Retry(s, outcome) ==
    LET r == req[s]
    IN  /\ r.pc = "await"
        /\ req' = [req EXCEPT ![s] =
                      [r EXCEPT !.call = outcome,
                                !.pc = IF outcome = "ok" THEN "update_ok"
                                       ELSE IF r.calls < 2 THEN "call"
                                       ELSE "update_failed"]]
        /\ UNCHANGED <<clockVars, cacheVars, storeVars, started, acked, sideVars>>

\* Lines 438-444 and 482: the response, raise_for_status, the success flag.
TransformReturn(s, outcome) ==
    LET r == req[s]
    IN  /\ r.pc = "await"
        /\ req' = [req EXCEPT ![s] =
                      [r EXCEPT !.call = outcome,
                                !.pc = IF outcome = "ok" THEN "update_ok"
                                       ELSE "update_failed"]]
        /\ UNCHANGED <<clockVars, cacheVars, storeVars, started, acked, sideVars>>

\* Correlated without the status condition of the WHERE clause
Correlated_AnyStatus(context) ==
    {i \in 1..Len(logs) :
        /\ logs[i].tenant_id = context.tenant_id
        /\ logs[i].user_id = context.user_id
        /\ logs[i].triggered_at > now - LOG_WINDOW}

\* Correlated without the user condition of the WHERE clause
Correlated_AnyUser(context) ==
    {i \in 1..Len(logs) :
        /\ logs[i].tenant_id = context.tenant_id
        /\ logs[i].status = "triggered"
        /\ logs[i].triggered_at > now - LOG_WINDOW}

\* WHERE tenant_id = :tenant_id AND user_id = :user_id AND status = 'triggered'
\*   AND triggered_at > NOW() - INTERVAL '1 minute'
Correlated(context) ==
    {i \in 1..Len(logs) :
        /\ logs[i].tenant_id = context.tenant_id
        /\ logs[i].user_id = context.user_id
        /\ logs[i].status = "triggered"
        /\ logs[i].triggered_at > now - LOG_WINDOW}

\* Lines 447-464: UPDATE auto_transform_logs SET ... status = 'transformed'
UpdateTransformed(context, transformed_text) ==
    [i \in 1..Len(logs) |->
        IF i \in Correlated(context)
        THEN [logs[i] EXCEPT !.transformed_message = transformed_text,
                             !.processed_at = now,
                             !.status = "transformed"]
        ELSE logs[i]]

\* Lines 486-503: UPDATE auto_transform_logs SET status = 'failed' ...
UpdateFailed(context, error) ==
    [i \in 1..Len(logs) |->
        IF i \in Correlated(context)
        THEN [logs[i] EXCEPT !.status = "failed",
                             !.error_message = error,
                             !.processed_at = now]
        ELSE logs[i]]

\* Lines 444-480: the success path after the call.
TransformUpdateOk(s) ==
    LET r == req[s]
        transformed_text == <<"transformed", r.context.message>>
    IN  /\ r.pc = "update_ok"
        /\ logs' = UpdateTransformed(r.context, transformed_text)
        /\ req' = [req EXCEPT ![s] =
                      [r EXCEPT !.pc = "metrics", !.status = 200,
                                !.matched = Correlated(r.context),
                                !.updated = {i \in 1..Len(logs) : logs'[i] # logs[i]},
                                !.body = [kind |-> "transformed", success |-> TRUE,
                                          original |-> r.context.message,
                                          transformed |-> transformed_text,
                                          rule_applied |-> r.transformation.rule_name,
                                          confidence |-> r.transformation.confidence]]]
        /\ UNCHANGED <<clockVars, cacheVars, db_configs, db_rules, started, acked, sideVars>>

\* Lines 482-505: the except branch.
TransformUpdateFailed(s) ==
    LET r == req[s]
    IN  /\ r.pc = "update_failed"
        /\ logs' = UpdateFailed(r.context, <<r.call>>)
        /\ req' = [req EXCEPT ![s] =
                      Error500([r EXCEPT !.matched = Correlated(r.context),
                                         !.updated = {i \in 1..Len(logs) :
                                                         logs'[i] # logs[i]}],
                               <<r.call>>)]
        /\ UNCHANGED <<clockVars, cacheVars, db_configs, db_rules, started, acked, sideVars>>

\* redis_client.hincrby(key, field, 1)
Hincrby(m, k) == IF k \in DOMAIN m THEN [m EXCEPT ![k] = @ + 1] ELSE m @@ (k :> 1)

\* AfterMetrics with the exception of the metric write raised to the request
AfterMetrics_Raises(r, failed) ==
    IF failed THEN Error500([r EXCEPT !.metrics_failed = TRUE], "redis")
    ELSE [r EXCEPT !.pc = "done"]

\* Lines 734-741: the try of track_metrics; its except logs the error and the
\* task ends.
AfterMetrics(r, failed) == [r EXCEPT !.pc = "done", !.metrics_failed = failed]

\* Lines 732-741: the background task, run after the response is sent; a Redis
\* failure is logged and dropped.
track_metrics(s) ==
    LET r == req[s]
        t == r.context.tenant_id
        m1 == Hincrby(metrics, <<"metrics", t, "success">>)
    IN  /\ r.pc = "metrics"
        /\ metrics' = IF ~cacheUp THEN metrics
                      ELSE Hincrby(m1, <<"rule_usage", t, r.transformation.rule_id.v>>)
        /\ req' = [req EXCEPT ![s] = AfterMetrics(r, ~cacheUp)]
        /\ UNCHANGED <<clockVars, cache_config, cache_rules, storeVars, started,
                       acked, sideVars>>

\* ------------------------------------------------------------ get_config

\* ConfigResponse that takes an absent configuration for an enabled one
ConfigResponse_DefaultEnabled(result) ==
    [kind |-> "config", enabled |-> IF result.present THEN result.enabled ELSE TRUE,
     row |-> result]

\* Lines 515-518: {"enabled": False} when there is no row, else dict(result)
ConfigResponse(result) ==
    IF ~result.present
    THEN [kind |-> "config", enabled |-> FALSE, row |-> NoRow]
    ELSE [kind |-> "config", enabled |-> result.enabled, row |-> result]

\* Lines 507-518: one SELECT on auto_transform_configs and the response; the
\* handler has no other step.
get_config(s, tenant_id) ==
    /\ Accepts(s)
    /\ req' = [req EXCEPT ![s] =
                  Respond([IdleReq EXCEPT !.op = "get_config", !.tenant_id = tenant_id,
                                          !.seen = db_configs[tenant_id]],
                          200, ConfigResponse(db_configs[tenant_id]))]
    /\ started' = started + 1
    /\ UNCHANGED <<clockVars, cacheVars, storeVars, acked, sideVars>>

\* ------------------------------------------------------------ update_config

StartUpdateConfig(s, config) ==
    /\ Accepts(s)
    /\ req' = [req EXCEPT ![s] = [IdleReq EXCEPT !.pc = "commit",
                                             !.op = "update_config",
                                             !.config_in = config]]
    /\ started' = started + 1
    /\ UNCHANGED <<clockVars, cacheVars, storeVars, acked, sideVars>>

\* Lines 529-586: the SELECT, the UPDATE or the INSERT, and db.commit().
UpdateConfigCommit(s) ==
    LET r == req[s]
        c == r.config_in
    IN  /\ r.pc = "commit"
        /\ db_configs' = [db_configs EXCEPT ![c.tenant_id] =
                             ConfigRow(c.tenant_id, c.enabled, c.min_message_length)]
        /\ req' = [req EXCEPT ![s] = [r EXCEPT !.pc = "invalidate",
                                                 !.committed = TRUE]]
        /\ UNCHANGED <<clockVars, cacheVars, db_rules, logs, started, acked, sideVars>>

\* CacheDelete that leaves the entry in place
CacheDelete_Keep(cache, t) == cache

\* redis_client.delete(key)
CacheDelete(cache, t) == [cache EXCEPT ![t] = Absent]

\* Lines 589-596: the cache delete and the response; a Redis failure goes to
\* the except branch, whose rollback comes after the commit.
UpdateConfigInvalidate(s) ==
    LET r == req[s]
        t == r.config_in.tenant_id
    IN  /\ r.pc = "invalidate"
        /\ IF cacheUp
           THEN /\ cache_config' = CacheDelete(cache_config, t)
                /\ acked' = acked \cup {t}
                /\ req' = [req EXCEPT ![s] =
                              Respond([r EXCEPT !.deleted = TRUE,
                                                !.had_entry = cache_config[t].present,
                                                !.entry_gone = ~cache_config'[t].present],
                                      200, [kind |-> "ok", success |-> TRUE])]
           ELSE /\ cache_config' = cache_config
                /\ acked' = acked
                /\ req' = [req EXCEPT ![s] =
                              Error500([r EXCEPT !.cache_failed = TRUE], "redis")]
        /\ UNCHANGED <<clockVars, cache_rules, metrics, storeVars, started, sideVars>>

\* ------------------------------------------------------------ create_rule

StartCreateRule(s, rule_in) ==
    /\ Accepts(s)
    /\ req' = [req EXCEPT ![s] = [IdleReq EXCEPT !.pc = "commit_rule",
                                             !.op = "create_rule",
                                             !.rule_in = rule_in]]
    /\ started' = started + 1
    /\ UNCHANGED <<clockVars, cacheVars, storeVars, acked, sideVars>>

\* Lines 627-677: the config (created with the column defaults when the tenant
\* has none), the INSERT of the rule, and db.commit().
CreateRuleCommit(s) ==
    LET r == req[s]
        t == r.rule_in.tenant_id
        config == IF db_configs[t].present THEN db_configs[t]
                  ELSE ConfigRow(t, FALSE, DEFAULT_MIN_MESSAGE_LENGTH)
    IN  /\ r.pc = "commit_rule"
        /\ db_configs' = [db_configs EXCEPT ![t] = config]
        /\ db_rules' = db_rules \cup {RuleRow(config.id, r.rule_in.rule)}
        /\ req' = [req EXCEPT ![s] = [r EXCEPT !.pc = "invalidate_rule",
                                                 !.committed = TRUE]]
        /\ UNCHANGED <<clockVars, cacheVars, logs, started, acked, sideVars>>

\* Lines 680-687
CreateRuleInvalidate(s) ==
    LET r == req[s]
        t == r.rule_in.tenant_id
    IN  /\ r.pc = "invalidate_rule"
        /\ IF cacheUp
           THEN /\ cache_rules' = CacheDelete(cache_rules, t)
                /\ req' = [req EXCEPT ![s] =
                              Respond([r EXCEPT !.deleted = TRUE,
                                                !.had_entry = cache_rules[t].present,
                                                !.entry_gone = ~cache_rules'[t].present],
                                      200, [kind |-> "ok", success |-> TRUE])]
           ELSE /\ cache_rules' = cache_rules
                /\ req' = [req EXCEPT ![s] =
                              Error500([r EXCEPT !.cache_failed = TRUE], "redis")]
        /\ UNCHANGED <<clockVars, cache_config, metrics, storeVars, started, acked, sideVars>>

\* ------------------------------------------------------------ environment

\* Time passes, by the minute or by the cache's TTL, between requests and while
\* a worker waits for the external transform service: a round trip to the store
\* or to the cache takes no tick.  Redis drops the entries whose TTL has elapsed.
Expire(cache, t) == [k \in DOMAIN cache |->
                        IF cache[k].present /\ cache[k].expires <= t
                        THEN Absent ELSE cache[k]]

Tick(d) ==
    /\ ticks < MaxTicks
    /\ \A s \in Slots : req[s].pc \in {"idle", "done", "await"}
    /\ now' = now + d
    /\ ticks' = ticks + 1
    /\ cache_config' = Expire(cache_config, now')
    /\ cache_rules' = Expire(cache_rules, now')
    /\ UNCHANGED <<cacheUp, metrics, storeVars, req, started, acked, sideVars>>

CacheFail ==
    /\ cacheUp
    /\ cacheUp' = FALSE
    /\ UNCHANGED <<now, ticks, cacheVars, storeVars, req, started, acked, sideVars>>

CacheRecover ==
    /\ ~cacheUp
    /\ cacheUp' = TRUE
    /\ UNCHANGED <<now, ticks, cacheVars, storeVars, req, started, acked, sideVars>>

\* ------------------------------------------------------------ SDK: AutoTransformService.evaluate

\* context_data is a dict: a function on the keys it has.  A key whose value is
\* None is left out of it, as dict.get gives None for both.
Without(d, k) == [x \in DOMAIN d \ {k} |-> d[x]]

SdkBase ==
    [message |-> MSG_LONG, user_id |-> "U1", tenant_id |-> "T1", platform |-> "slack",
     channel_id |-> CH_GENERAL, recipient_ids |-> <<>>]

\* The arguments the SDK's users pass to evaluate.
SdkContexts ==
    {SdkBase,
     [SdkBase EXCEPT !.tenant_id = "T2"],
     [SdkBase EXCEPT !.message = MSG_SHORT],
     Without(SdkBase, "channel_id"),
     Without(SdkBase, "message"), Without(SdkBase, "user_id"),
     Without(SdkBase, "tenant_id"), Without(SdkBase, "platform"),
     [SdkBase EXCEPT !.message = <<>>], [SdkBase EXCEPT !.user_id = ""],
     [SdkBase EXCEPT !.tenant_id = ""], [SdkBase EXCEPT !.platform = ""]}

\* not context.get(key), for a key that holds a text and for one that holds an
\* identifier
NotText(context, key) == key \notin DOMAIN context \/ context[key] = <<>>
NotStr(context, key) == key \notin DOMAIN context \/ context[key] = ""

\* _validate_message_context without its last check
_validate_message_context_NoPlatform(context) ==
    IF NotText(context, "message")
    THEN [exc |-> "ValidationError", message |-> "Message is required"]
    ELSE IF NotStr(context, "user_id")
    THEN [exc |-> "ValidationError", message |-> "User ID is required"]
    ELSE IF NotStr(context, "tenant_id")
    THEN [exc |-> "ValidationError", message |-> "Tenant ID is required"]
    ELSE [exc |-> "none", message |-> ""]

\* Lines 415-424 of the SDK service
_validate_message_context(context) ==
    IF NotText(context, "message")
    THEN [exc |-> "ValidationError", message |-> "Message is required"]
    ELSE IF NotStr(context, "user_id")
    THEN [exc |-> "ValidationError", message |-> "User ID is required"]
    ELSE IF NotStr(context, "tenant_id")
    THEN [exc |-> "ValidationError", message |-> "Tenant ID is required"]
    ELSE IF NotStr(context, "platform")
    THEN [exc |-> "ValidationError", message |-> "Platform is required"]
    ELSE [exc |-> "none", message |-> ""]

\* The fields the pydantic model MessageContext of the service requires.
RequiredFields == {"message", "user_id", "tenant_id", "platform"}

\* TextBlob(message).sentiment.polarity for the messages of the model
TextBlobPolarity(message) == IF message = MSG_LONG THEN Polarity(-40) ELSE Polarity(0)

\* MessageContext(**json): the optional fields take their defaults.
ParseContext(d) ==
    Ctx(d.message, d.user_id, d.tenant_id, d.platform,
        Get(d, "channel_id", None), Get(d, "recipient_ids", <<>>),
        TextBlobPolarity(d.message), "member")

\* AutoTransformService.evaluate(context): the validation, then the POST.  The
\* service answers a body that lacks a required field with 422 before the
\* handler is entered; any other starts evaluate_message on a worker.
SdkEvaluate(s, context_data) ==
    LET v == _validate_message_context(context_data)
    IN  IF v.exc # "none"
        THEN /\ sdk' = [sdk EXCEPT !.context_data = context_data, !.outcome = v.exc]
             /\ UNCHANGED <<req, started>>
             /\ UNCHANGED <<clockVars, cacheVars, storeVars, acked, eng, trig, lim, wsc>>
        ELSE /\ Accepts(s)
             /\ sdk' = [sdk EXCEPT !.context_data = context_data, !.outcome = "sent",
                                   !.sent = @ + 1]
             /\ req' = [req EXCEPT ![s] =
                           IF RequiredFields \subseteq DOMAIN context_data
                           THEN [IdleReq EXCEPT !.pc = "get_config", !.op = "evaluate",
                                                !.context = ParseContext(context_data)]
                           ELSE Respond([IdleReq EXCEPT !.op = "rejected"], 422,
                                        [kind |-> "error", detail |-> "field required"])]
             /\ started' = started + 1
             /\ UNCHANGED <<clockVars, cacheVars, storeVars, acked, eng, trig, lim, wsc>>

\* The service reached through the SDK's evaluate only.
NextSdk ==
    \/ \E s \in Slots, context_data \in SdkContexts : SdkEvaluate(s, context_data)
    \/ \E s \in Slots : EvalGetConfig(s)
    \/ \E s \in Slots : EvalLoadConfig(s)
    \/ \E s \in Slots : EvalCacheConfig(s)
    \/ \E s \in Slots : EvalGetRules(s)
    \/ \E s \in Slots : EvalLoadRules(s)
    \/ \E s \in Slots : EvalCacheRules(s)
    \/ \E s \in Slots : EvalInsertLog(s)

SpecSdk == Init /\ [][NextSdk]_vars

\* ------------------------------------------------------------ RateLimiter

\* The clock of the event loop counts ticks of 1/(requests_per_second *
\* Resolution) second, so that min_interval = 1.0 / requests_per_second is a
\* whole number of ticks.
requests_per_second == 10
Resolution == 2
MaxStart == 3
MaxClock == 6

TicksPerSecond == requests_per_second * Resolution
min_interval == TicksPerSecond \div requests_per_second

\* SleepTime that asks for no sleep
SleepTime_None(current_time, last_request_time) == 0

\* sleep_time = self.min_interval - time_since_last
SleepTime(current_time, last_request_time) ==
    min_interval - (current_time - last_request_time)

\* Release that sets no waiter's future
Release_NoWake(l) == [l EXCEPT !.locked = FALSE, !.woken = 0]

\* asyncio.Lock.release, at the exit of "async with self.lock": the lock is
\* unlocked and the future of the first waiter is set.
Release(l) ==
    [l EXCEPT !.locked = FALSE,
              !.woken = IF l.waiters # <<>> THEN Head(l.waiters) ELSE 0]

\* Line 284 and the exit of the with block: caller c records the clock, releases
\* the lock and returns.
Finish(l, c) ==
    Release([l EXCEPT !.last_request_time = l.clock,
                      !.pc[c] = "returned",
                      !.returned = Append(@, l.clock)])

\* Lines 276-284 for caller c, which holds the lock, up to its first suspension:
\* the task runs without interruption until it awaits asyncio.sleep or returns.
Body(l, c) ==
    LET current_time == l.clock
        time_since_last == current_time - l.last_request_time
    IN  IF time_since_last < min_interval
        THEN [l EXCEPT !.pc[c] = "sleeping",
                       !.current_time[c] = current_time,
                       !.wake[c] = l.clock + SleepTime(current_time, l.last_request_time),
                       !.slept[c] = TRUE]
        ELSE Finish([l EXCEPT !.current_time[c] = current_time], c)

\* Caller c calls acquire.  asyncio.Lock.acquire takes a lock that is unlocked
\* and has no waiter without suspending; otherwise the caller queues.
LimCall(c) ==
    /\ lim.pc[c] = "idle"
    /\ lim' = IF ~lim.locked /\ lim.waiters = <<>>
              THEN Body([lim EXCEPT !.locked = TRUE], c)
              ELSE [lim EXCEPT !.waiters = Append(@, c),
                               !.pc[c] = "waiting",
                               !.waited[c] = TRUE]
    /\ UNCHANGED <<clockVars, cacheVars, storeVars, req, started, acked, eng, trig, sdk, wsc>>

\* The waiter whose future was set resumes in Lock.acquire: it leaves the queue
\* and takes the lock.
LimResume(c) ==
    /\ lim.pc[c] = "waiting"
    /\ lim.woken = c
    /\ lim' = Body([lim EXCEPT !.waiters = Tail(@), !.locked = TRUE, !.woken = 0], c)
    /\ UNCHANGED <<clockVars, cacheVars, storeVars, req, started, acked, eng, trig, sdk, wsc>>

\* asyncio.sleep(sleep_time) returns, not before sleep_time has passed on the
\* loop's clock.
LimWake(c) ==
    /\ lim.pc[c] = "sleeping"
    /\ lim.clock >= lim.wake[c]
    /\ lim' = Finish(lim, c)
    /\ UNCHANGED <<clockVars, cacheVars, storeVars, req, started, acked, eng, trig, sdk, wsc>>

\* The loop's monotonic clock advances; it is followed up to MaxClock and as far
\* as a sleeping caller needs.
LimTick ==
    /\ \/ lim.clock < MaxClock
       \/ \E c \in Callers : lim.pc[c] = "sleeping" /\ lim.clock < lim.wake[c]
    /\ lim' = [lim EXCEPT !.clock = @ + 1]
    /\ UNCHANGED <<clockVars, cacheVars, storeVars, req, started, acked, eng, trig, sdk, wsc>>

InitLimiter ==
    /\ Init!1 /\ Init!2 /\ Init!3 /\ Init!4 /\ Init!5 /\ Init!6 /\ Init!7
    /\ Init!8 /\ Init!9 /\ Init!10 /\ Init!11 /\ Init!12 /\ Init!13 /\ Init!14
    /\ Init!16 /\ Init!17
    /\ lim \in {LimNew(t) : t \in 0..MaxStart}

NextLimiter ==
    \/ \E c \in Callers : LimCall(c)
    \/ \E c \in Callers : LimResume(c)
    \/ \E c \in Callers : LimWake(c)
    \/ LimTick

SpecLimiter == InitLimiter /\ [][NextLimiter]_vars

\* The event loop runs every task that is ready and its clock advances.
SpecLimiterLive ==
    /\ SpecLimiter
    /\ WF_vars(LimTick)
    /\ \A c \in Callers : WF_vars(LimResume(c)) /\ WF_vars(LimWake(c))

\* ------------------------------------------------------------ the rule engine alone

MaxEngRules == 2

EngMessages == {MSG_LONG, MSG_SHORT}
EngPlatforms == {"slack", "teams"}
EngChannels == {None, CH_GENERAL, CH_SUPPORT}
EngRoles == {"member", "admin"}
EngTimes == {CurrentTime}

EngContexts ==
    {Ctx(m, "U1", "T1", p, c, <<>>, Polarity(-40), role) :
        m \in EngMessages, p \in EngPlatforms, c \in EngChannels, role \in EngRoles}

\* Rows of auto_transform_rules as evaluate_message hands them to the engine.
EngRules ==
    {RuleRow(Uuid("T1"), x) : x \in
        {Rule("kw-half", 5, "keyword", [keywords |-> <<KW_NOW, KW_BAD>>], <<>>, <<>>, <<>>),
         Rule("kw-full", 5, "keyword", [keywords |-> <<KW_FIX>>], <<>>, <<>>, <<>>),
         Rule("kw-top", 10, "keyword", [keywords |-> <<KW_NOW, KW_BAD>>],
              <<"slack">>, <<>>, <<>>),
         Rule("kw-support", 7, "keyword", [keywords |-> <<KW_FIX>>],
              <<>>, <<CH_SUPPORT>>, <<>>),
         Rule("kw-admins", 8, "keyword", [keywords |-> <<KW_FIX>>],
              <<>>, <<>>, <<"admin">>),
         Rule("office-hours", 1, "time", [after |-> BAD_TIME], <<>>, <<>>, <<>>),
         Rule("negative", 5, "sentiment", [operator |-> "less_than", threshold |-> 0],
              <<>>, <<>>, <<>>)}}
    \cup {[RuleRow(Uuid("T1"),
                   Rule("kw-off", 20, "keyword", [keywords |-> <<KW_FIX>>],
                        <<>>, <<>>, <<>>)) EXCEPT !.enabled = FALSE]}

EngRuleLists == UNION {[1..n -> EngRules] : n \in 0..MaxEngRules}

InitEngine ==
    /\ Init!1 /\ Init!2 /\ Init!3 /\ Init!4 /\ Init!5 /\ Init!6 /\ Init!7
    /\ Init!8 /\ Init!9 /\ Init!10 /\ Init!11 /\ Init!12
    /\ Init!14 /\ Init!15 /\ Init!16 /\ Init!17
    /\ eng \in {[EngIdle EXCEPT !.pc = "ready", !.context = c, !.rules = l,
                                !.current_time = t] :
                   c \in EngContexts, l \in EngRuleLists, t \in EngTimes}

\* result = await RuleEngine.evaluate_rules(context, rules)
EngEvaluate ==
    /\ eng.pc = "ready"
    /\ eng' = [eng EXCEPT !.pc = "returned",
                          !.out = evaluate_rules(eng.context, eng.rules,
                                                 eng.current_time)]
    /\ UNCHANGED <<clockVars, cacheVars, storeVars, req, started, acked,
                   trig, lim, sdk, wsc>>

SpecEngine == InitEngine /\ [][EngEvaluate]_vars

\* ------------------------------------------------------------ a trigger evaluator alone

MaxKeywords == 4

KW_UPPER == <<"N", "O", "W">>
TrigKeywords == {KW_NOW, KW_BAD, KW_FIX, KW_UPPER}
TrigKeywordLists == UNION {[1..n -> TrigKeywords] : n \in 0..MaxKeywords}
TrigMessages == {MSG_LONG, MSG_SHORT, <<>>}

\* Polarities and thresholds in hundredths; an operator outside the three the
\* evaluator knows; configs that leave the threshold or the operator out.
TrigPolarities == {-100, -40, -5, 0, 5, 10, 20, 100}
TrigThresholds == {-50, 0, 10, 300}
TrigOperators == {"less_than", "greater_than", "equals", "not_equals"}

TrigSentimentConfigs ==
    {[operator |-> o, threshold |-> t] : o \in TrigOperators, t \in TrigThresholds}
    \cup {[operator |-> o] : o \in TrigOperators}
    \cup {[threshold |-> t] : t \in TrigThresholds}

TrigCall(context, trigger_type, trigger_value) ==
    [TrigIdle EXCEPT !.pc = "ready", !.context = context,
                     !.trigger_type = trigger_type, !.trigger_value = trigger_value,
                     !.current_time = CurrentTime]

\* Recipient lists of the context, and configs with ids, roles, both or neither.
TrigRecipients == {<<>>, <<"U2">>, <<"U2", "U3">>}
TrigIdLists == {<<>>, <<"U2">>, <<"U9">>}
TrigRoleLists == {<<>>, <<"manager">>}

TrigRecipientConfigs ==
    {[ids |-> i, roles |-> r] : i \in TrigIdLists, r \in TrigRoleLists}
    \cup {[ids |-> i] : i \in TrigIdLists}
    \cup {[roles |-> r] : r \in TrigRoleLists}
    \cup {<<>>}

\* Channel ids of the context (absent, empty, two channels) and configs with
\* ids, a type, both or neither; "c" is a type other than "support".
TYPE_C == <<"c">>
TrigChannels == {None, <<>>, CH_GENERAL, CH_SUPPORT}
TrigChannelIdLists == {<<>>, <<CH_GENERAL>>}
TrigChannelTypes == {SUPPORT, TYPE_C}

TrigChannelConfigs ==
    {[ids |-> i, type |-> t] : i \in TrigChannelIdLists, t \in TrigChannelTypes}
    \cup {[ids |-> i] : i \in TrigChannelIdLists}
    \cup {[type |-> t] : t \in TrigChannelTypes}
    \cup {<<>>}

\* Times of day around the two bounds 09:00 and 17:00, in minutes, and configs
\* with after, before, both or neither.
T_0900 == <<"0", "9", ":", "0", "0">>
T_1700 == <<"1", "7", ":", "0", "0">>
TrigTimes == {539, 540, 541, 1019, 1020, 1021}

TrigTimeConfigs ==
    {[after |-> T_0900, before |-> T_1700], [after |-> T_0900], [before |-> T_1700],
     [after |-> T_1700, before |-> T_0900], <<>>}

\* Pattern lists over three well-formed patterns and a malformed one.
MaxPatterns == 3

P_NOW == [ok |-> TRUE, lit |-> KW_UPPER]
P_FIX == [ok |-> TRUE, lit |-> KW_FIX]
P_BAD == [ok |-> TRUE, lit |-> KW_BAD]
P_MALFORMED == [ok |-> FALSE, lit |-> <<"(", "f", "i", "x">>]
TrigPatterns == {P_NOW, P_FIX, P_BAD, P_MALFORMED}
TrigPatternLists == UNION {[1..n -> TrigPatterns] : n \in 0..MaxPatterns}

TrigInputs ==
    {TrigCall(Ctx(m, "U1", "T1", "slack", None, <<>>, Polarity(0), "member"),
              "keyword", [keywords |-> l]) :
        m \in TrigMessages, l \in TrigKeywordLists}
    \cup
    {TrigCall(Ctx(MSG_LONG, "U1", "T1", "slack", None, <<>>, Polarity(v), "member"),
              "sentiment", config) :
        v \in TrigPolarities, config \in TrigSentimentConfigs}
    \cup
    {TrigCall(Ctx(MSG_LONG, "U1", "T1", "slack", None, <<>>,
                  [exc |-> "TextBlobError", value |-> 0], "member"),
              "sentiment", config) : config \in TrigSentimentConfigs}
    \cup
    {TrigCall(Ctx(MSG_LONG, "U1", "T1", "slack", None, r, Polarity(0), "member"),
              "recipient", config) :
        r \in TrigRecipients, config \in TrigRecipientConfigs}
    \cup
    {TrigCall(Ctx(MSG_LONG, "U1", "T1", "slack", c, <<>>, Polarity(0), "member"),
              "channel", config) :
        c \in TrigChannels, config \in TrigChannelConfigs}
    \cup
    {[TrigCall(NoContext, "time", config) EXCEPT !.current_time = t] :
        t \in TrigTimes, config \in TrigTimeConfigs}
    \cup
    {TrigCall(Ctx(m, "U1", "T1", "slack", None, <<>>, Polarity(0), "member"),
              "pattern", [patterns |-> l]) :
        m \in {MSG_LONG, MSG_SHORT}, l \in TrigPatternLists}

InitTrigger ==
    /\ Init!1 /\ Init!2 /\ Init!3 /\ Init!4 /\ Init!5 /\ Init!6 /\ Init!7
    /\ Init!8 /\ Init!9 /\ Init!10 /\ Init!11 /\ Init!12 /\ Init!13
    /\ Init!15 /\ Init!16 /\ Init!17
    /\ trig \in TrigInputs

\* match_result = await RuleEngine._evaluate_trigger(context, trigger_type,
\* trigger_value)
TrigEvaluate ==
    /\ trig.pc = "ready"
    /\ trig' = [trig EXCEPT !.pc = "returned",
                            !.out = _evaluate_trigger(trig.context, trig.trigger_type,
                                                      trig.trigger_value,
                                                      trig.current_time)]
    /\ UNCHANGED <<clockVars, cacheVars, storeVars, req, started, acked, eng, lim, sdk, wsc>>

SpecTrigger == InitTrigger /\ [][TrigEvaluate]_vars

\* ------------------------------------------------------------ SDK WebSocketClient

\* The connection attempts the model follows after the last successful open,
\* and the limits a client is constructed with.
MaxWsTries == 4
WsLimits == {0, 1, 2}

wsRest == <<clockVars, cacheVars, storeVars, req, started, acked, eng, trig, lim, sdk>>

InitWs ==
    /\ Init!1 /\ Init!2 /\ Init!3 /\ Init!4 /\ Init!5 /\ Init!6 /\ Init!7
    /\ Init!8 /\ Init!9 /\ Init!10 /\ Init!11 /\ Init!12 /\ Init!13
    /\ Init!14 /\ Init!15 /\ Init!16
    /\ wsc \in {WsNew(reconnect, max_reconnect_attempts) :
                    reconnect \in BOOLEAN, max_reconnect_attempts \in WsLimits}

\* connect(): nothing when already connected; else clear the stop flag and
\* start the thread that runs _run_forever
WsConnect ==
    /\ wsc.pc = "new"
    /\ ~wsc.is_connected
    /\ wsc' = [wsc EXCEPT !.stop_flag = FALSE, !.pc = "loop"]
    /\ UNCHANGED wsRest

\* while not self.stop_flag.is_set(): self.ws.run_forever(); connects counts
\* the calls of run_forever made since the last successful open
WsLoop ==
    /\ wsc.pc = "loop"
    /\ IF wsc.stop_flag
       THEN wsc' = [wsc EXCEPT !.pc = "ended"]
       ELSE /\ wsc.connects < MaxWsTries
            /\ wsc' = [wsc EXCEPT !.pc = "running", !.connects = @ + 1]
    /\ UNCHANGED wsRest

\* _on_open
WsOpen ==
    /\ wsc.pc = "running"
    /\ wsc' = [wsc EXCEPT !.pc = "open", !.is_connected = TRUE,
                          !.reconnect_attempts = 0, !.connects = 0]
    /\ UNCHANGED wsRest

\* _handle_reconnect
_handle_reconnect(w) ==
    IF w.reconnect_attempts >= w.max_reconnect_attempts
    THEN w
    ELSE [w EXCEPT !.reconnect_attempts = @ + 1]

\* run_forever returns: the connection could not be made, or the open
\* connection was closed or lost (_on_close); then the rest of the try body
WsReturn ==
    /\ wsc.pc \in {"running", "open"}
    /\ LET closed == [wsc EXCEPT !.is_connected = FALSE,
                                 !.lost = @ \/ wsc.pc = "open"]
       IN  wsc' = IF ~closed.stop_flag /\ closed.reconnect
                  THEN [_handle_reconnect(closed) EXCEPT !.pc = "loop"]
                  ELSE [closed EXCEPT !.pc = "ended"]
    /\ UNCHANGED wsRest

\* run_forever raises: the except branch of _run_forever
WsRaise ==
    /\ wsc.pc = "running"
    /\ wsc' = IF wsc.reconnect /\ wsc.reconnect_attempts < wsc.max_reconnect_attempts
              THEN [wsc EXCEPT !.pc = "loop"]
              ELSE [wsc EXCEPT !.pc = "ended"]
    /\ UNCHANGED wsRest

\* disconnect(): set the stop flag and close the socket; the thread sees the
\* flag at its next test
WsDisconnect ==
    /\ wsc.pc \in {"loop", "running", "open"}
    /\ ~wsc.stop_flag
    /\ wsc' = [wsc EXCEPT !.stop_flag = TRUE, !.is_connected = FALSE]
    /\ UNCHANGED wsRest

NextWs ==
    \/ WsConnect
    \/ WsLoop
    \/ WsOpen
    \/ WsReturn
    \/ WsRaise
    \/ WsDisconnect

SpecWs == InitWs /\ [][NextWs]_vars

\* ------------------------------------------------------------ specifications

Next ==
    \/ \E s \in Slots, context \in Contexts : StartEvaluate(s, context)
    \/ \E s \in Slots : EvalGetConfig(s)
    \/ \E s \in Slots : EvalLoadConfig(s)
    \/ \E s \in Slots : EvalCacheConfig(s)
    \/ \E s \in Slots : EvalGetRules(s)
    \/ \E s \in Slots : EvalLoadRules(s)
    \/ \E s \in Slots : EvalCacheRules(s)
    \/ \E s \in Slots : EvalInsertLog(s)
    \/ \E s \in Slots, i \in 1..Len(logs) : StartTransform(s, i)
    \/ \E s \in Slots : TransformCall(s)
    \/ \E s \in Slots, outcome \in CallOutcomes : TransformReturn(s, outcome)
    \/ \E s \in Slots : TransformUpdateOk(s)
    \/ \E s \in Slots : TransformUpdateFailed(s)
    \/ \E s \in Slots : track_metrics(s)
    \/ \E s \in Slots, t \in Tenants : get_config(s, t)
    \/ \E s \in Slots, config \in ConfigInputs : StartUpdateConfig(s, config)
    \/ \E s \in Slots : UpdateConfigCommit(s)
    \/ \E s \in Slots : UpdateConfigInvalidate(s)
    \/ \E s \in Slots, rule_in \in RuleInputs : StartCreateRule(s, rule_in)
    \/ \E s \in Slots : CreateRuleCommit(s)
    \/ \E s \in Slots : CreateRuleInvalidate(s)
    \/ \E d \in {TickStep, CACHE_TTL} : Tick(d)

Spec == Init /\ [][Next]_vars

\* The service with a Redis server that may stop answering and come back.
NextCacheFault == Next \/ CacheFail \/ CacheRecover

SpecCacheFault == Init /\ [][NextCacheFault]_vars

\* evaluate_message and auto_transform with its background task, over a Redis
\* server that may stop answering and come back.
NextTransform ==
    \/ \E s \in Slots, context \in Contexts : StartEvaluate(s, context)
    \/ \E s \in Slots : EvalGetConfig(s)
    \/ \E s \in Slots : EvalLoadConfig(s)
    \/ \E s \in Slots : EvalCacheConfig(s)
    \/ \E s \in Slots : EvalGetRules(s)
    \/ \E s \in Slots : EvalLoadRules(s)
    \/ \E s \in Slots : EvalCacheRules(s)
    \/ \E s \in Slots : EvalInsertLog(s)
    \/ \E s \in Slots, i \in 1..Len(logs) : StartTransform(s, i)
    \/ \E s \in Slots : TransformCall(s)
    \/ \E s \in Slots, outcome \in CallOutcomes : TransformReturn(s, outcome)
    \/ \E s \in Slots : TransformUpdateOk(s)
    \/ \E s \in Slots : TransformUpdateFailed(s)
    \/ \E s \in Slots : track_metrics(s)
    \/ CacheFail
    \/ CacheRecover

SpecTransform == Init /\ [][NextTransform]_vars

\* evaluate_message and auto_transform over a store in which both tenants have
\* an enabled configuration and one rule each, with different transformations,
\* and the clock advancing by one correlation window.
InitLog ==
    /\ Init!1 /\ Init!2 /\ Init!3 /\ Init!4 /\ Init!5
    /\ db_configs = [t \in Tenants |-> ConfigRow(t, TRUE, 1)]
    /\ db_rules =
          {RuleRow(Uuid("T1"),
                   Rule("kw-now", 5, "keyword", [keywords |-> <<KW_NOW, KW_BAD>>],
                        <<"slack", "discord">>, <<>>, <<>>)),
           RuleRow(Uuid("T2"),
                   [Rule("kw-fix", 10, "keyword", [keywords |-> <<KW_FIX>>],
                         <<>>, <<>>, <<>>)
                       EXCEPT !.transformation_type = "clarify",
                              !.transformation_intensity = 3])}
    /\ Init!8 /\ Init!9 /\ Init!10 /\ Init!11 /\ Init!12 /\ Init!13
    /\ Init!14 /\ Init!15 /\ Init!16 /\ Init!17

NextLog ==
    \/ \E s \in Slots, context \in Contexts : StartEvaluate(s, context)
    \/ \E s \in Slots : EvalGetConfig(s)
    \/ \E s \in Slots : EvalLoadConfig(s)
    \/ \E s \in Slots : EvalCacheConfig(s)
    \/ \E s \in Slots : EvalGetRules(s)
    \/ \E s \in Slots : EvalLoadRules(s)
    \/ \E s \in Slots : EvalCacheRules(s)
    \/ \E s \in Slots : EvalInsertLog(s)
    \/ \E s \in Slots, i \in 1..Len(logs) : StartTransform(s, i)
    \/ \E s \in Slots : TransformCall(s)
    \/ \E s \in Slots, outcome \in CallOutcomes : TransformReturn(s, outcome)
    \/ \E s \in Slots : TransformUpdateOk(s)
    \/ \E s \in Slots : TransformUpdateFailed(s)
    \/ \E s \in Slots : track_metrics(s)
    \/ Tick(TickStep)

SpecLog == InitLog /\ [][NextLog]_vars

\* The evaluation and administration handlers alone: evaluate_message,
\* get_config, update_config and create_rule, with the clock advancing by one cache lifetime.
NextEvaluate ==
    \/ \E s \in Slots, context \in Contexts : StartEvaluate(s, context)
    \/ \E s \in Slots : EvalGetConfig(s)
    \/ \E s \in Slots : EvalLoadConfig(s)
    \/ \E s \in Slots : EvalCacheConfig(s)
    \/ \E s \in Slots : EvalGetRules(s)
    \/ \E s \in Slots : EvalLoadRules(s)
    \/ \E s \in Slots : EvalCacheRules(s)
    \/ \E s \in Slots : EvalInsertLog(s)
    \/ \E s \in Slots, t \in Tenants : get_config(s, t)
    \/ \E s \in Slots, config \in ConfigInputs : StartUpdateConfig(s, config)
    \/ \E s \in Slots : UpdateConfigCommit(s)
    \/ \E s \in Slots : UpdateConfigInvalidate(s)
    \/ \E s \in Slots, rule_in \in RuleInputs : StartCreateRule(s, rule_in)
    \/ \E s \in Slots : CreateRuleCommit(s)
    \/ \E s \in Slots : CreateRuleInvalidate(s)
    \/ Tick(CACHE_TTL)

SpecEvaluate == Init /\ [][NextEvaluate]_vars

\* ------------------------------------------------------------ properties: rule resolution

\* The rules of the engine's input that are enabled, pass the platform and
\* channel allow-lists and whose trigger matches, by position in the list.
EngMatching ==
    {i \in 1..Len(eng.rules) :
        LET rule == eng.rules[i]
        IN  /\ rule.enabled
            /\ rule.platforms = <<>> \/ InList(eng.context.platform, rule.platforms)
            /\ rule.channels = <<>> \/ InList(eng.context.channel_id, rule.channels)
            /\ _evaluate_trigger(eng.context, rule.trigger_type, rule.trigger_value,
                                 eng.current_time).matches}

EngConfidence(i) ==
    _evaluate_trigger(eng.context, eng.rules[i].trigger_type,
                      eng.rules[i].trigger_value, eng.current_time).confidence

EngReason(i) ==
    _evaluate_trigger(eng.context, eng.rules[i].trigger_type,
                      eng.rules[i].trigger_value, eng.current_time).reason

\* Rule i comes strictly before rule j in the order (priority, confidence).
EngBelow(i, j) ==
    \/ eng.rules[i].priority < eng.rules[j].priority
    \/ /\ eng.rules[i].priority = eng.rules[j].priority
       /\ EngConfidence(i)[1] * EngConfidence(j)[2]
            < EngConfidence(j)[1] * EngConfidence(i)[2]

\* C2: when evaluate_rules returns, it returns a result iff some enabled rule
\* passes the allow-lists and matches, and the result carries the rule_id,
\* rule_name, transformation_type, intensity, options, confidence and reason of
\* a matching rule that no other matching rule exceeds in the lexicographic
\* order (priority, confidence).
C2_SelectsMaximalRule ==
    (eng.pc = "returned" /\ eng.out.exc = "none") =>
        /\ eng.out.result.should_transform <=> EngMatching # {}
        /\ EngMatching # {} =>
              \E i \in EngMatching :
                  /\ \A j \in EngMatching : ~EngBelow(i, j)
                  /\ eng.out.result.rule_id = eng.rules[i].id
                  /\ eng.out.result.rule_name = eng.rules[i].rule_name
                  /\ eng.out.result.transformation_type
                        = eng.rules[i].transformation_type
                  /\ eng.out.result.transformation_intensity
                        = eng.rules[i].transformation_intensity
                  /\ eng.out.result.transformation_options
                        = eng.rules[i].transformation_options
                  /\ eng.out.result.confidence = EngConfidence(i)
                  /\ eng.out.result.reason = EngReason(i)

\* A priority-10 rule of confidence 1/2 listed after a priority-5 rule of
\* confidence 1, both matching: the priority-10 rule is returned.
C2_Witness ==
    /\ eng.pc = "returned"
    /\ eng.out.exc = "none"
    /\ \E i, j \in EngMatching :
          /\ i < j
          /\ eng.rules[i].priority = 5 /\ eng.rules[j].priority = 10
          /\ EngConfidence(i) = Rat(1, 1) /\ EngConfidence(j) = Rat(1, 2)
    /\ eng.out.result.should_transform
    /\ eng.out.result.rule_name = "kw-top"

\* The rules of the engine's input that are enabled and that none of the three
\* allow-lists excludes: each list is empty or holds the context's attribute.
EngAdmitted ==
    {i \in 1..Len(eng.rules) :
        LET rule == eng.rules[i]
        IN  /\ rule.enabled
            /\ rule.platforms = <<>> \/ InList(eng.context.platform, rule.platforms)
            /\ rule.channels = <<>> \/ InList(eng.context.channel_id, rule.channels)
            /\ rule.user_roles = <<>>
                  \/ InList(eng.context.metadata.role, rule.user_roles)}

\* C6: the rules whose trigger evaluate_rules evaluates are exactly the enabled
\* rules that no allow-list excludes, where a platforms, channels or user_roles
\* list excludes a rule iff it is non-empty and does not hold the platform, the
\* channel or the role of the user of the message context.
C6_AllowListsFilter ==
    (eng.pc = "returned" /\ eng.out.exc = "none") =>
        eng.out.evals = Cardinality(EngAdmitted)

\* ------------------------------------------------------------ properties: evaluate

EvaluateDone(s) == req[s].op = "evaluate" /\ req[s].pc = "done"

\* Rule i of the rules request r read passes the platform and channel
\* allow-lists for the request's context.
Admits(r, i) ==
    /\ r.rules[i].platforms = <<>> \/ InList(r.context.platform, r.rules[i].platforms)
    /\ r.rules[i].channels = <<>> \/ InList(r.context.channel_id, r.rules[i].channels)

\* C1: an evaluate that obtains the tenant's configuration, from the cache or
\* from the store, after an update_config of that tenant has returned success
\* and while no other update_config of the tenant is in progress, uses the
\* enabled and min_message_length that the store holds at that moment.
C1_ReadsPostUpdateConfig ==
    \A s \in Slots :
        (req[s].op = "evaluate" /\ req[s].cfg_from # "none" /\ req[s].read_settled) =>
            /\ req[s].seen.present = req[s].store_at_read.present
            /\ req[s].seen.present =>
                  /\ req[s].seen.enabled = req[s].store_at_read.enabled
                  /\ req[s].seen.min_message_length
                        = req[s].store_at_read.min_message_length

\* C5: an evaluate whose rules all have a non-empty platform allow-list without
\* the context's platform or a non-empty channel allow-list without the
\* context's channel_id (an absent channel_id is in no list) returns
\* should_transform=false, has run no trigger evaluator and has written no log row.
C5_NoAdmittedRuleNoTransform ==
    \A s \in Slots :
        LET r == req[s]
        IN  (r.op = "evaluate" /\ r.rules_read
             /\ \A i \in 1..Len(r.rules) : ~Admits(r, i)) =>
                /\ r.pc = "done"
                /\ r.status = 200
                /\ r.body.kind = "decision"
                /\ ~r.body.should_transform
                /\ r.evals = 0
                /\ r.row = 0

\* An evaluate on teams, with no channel, of a tenant whose only rule is for
\* slack and discord: "No matching rules".
C5_Witness ==
    \E s \in Slots :
        /\ EvaluateDone(s)
        /\ req[s].rules_read
        /\ req[s].rules # <<>>
        /\ \A i \in 1..Len(req[s].rules) : ~Admits(req[s], i)
        /\ req[s].context.platform = "teams"
        /\ req[s].context.channel_id = None
        /\ req[s].body = Negative("No matching rules")

\* C7: once an evaluate holds a configuration (a cache entry, or a store row
\* that is enabled) whose min_message_length exceeds the length of the message,
\* it reads no rules, runs no trigger evaluator and inserts no log row, and
\* when it returns it returns should_transform=false with reason "Message too
\* short".
C7_TooShortReturnsFirst ==
    \A s \in Slots :
        LET r == req[s]
        IN  (r.op = "evaluate" /\ r.config.present
             /\ Len(r.context.message) < r.config.min_message_length) =>
                /\ r.pc \in {"cache_config", "done"}
                /\ ~r.rules_read
                /\ r.rules = <<>>
                /\ ~r.evaluated
                /\ r.evals = 0
                /\ r.row = 0
                /\ r.pc = "done" =>
                      /\ r.status = 200
                      /\ r.body.kind = "decision"
                      /\ ~r.body.should_transform
                      /\ r.body.reason = <<"Message too short">>

C7_Witness ==
    \E s \in Slots :
        /\ EvaluateDone(s)
        /\ req[s].config.present
        /\ req[s].config.enabled
        /\ req[s].config.min_message_length = 5
        /\ req[s].context.message = MSG_SHORT
        /\ req[s].body = Negative("Message too short")
        /\ ~req[s].rules_read

\* Some rule that request r read is enabled, passes the allow-lists and matches.
SomeRuleMatches(r) ==
    \E i \in 1..Len(r.rules) :
        /\ r.rules[i].enabled
        /\ Admits(r, i)
        /\ _evaluate_trigger(r.context, r.rules[i].trigger_type,
                             r.rules[i].trigger_value, r.current_time).matches

\* C8: every decision evaluate returns is the first that applies of: the
\* configuration it obtained (cache entry or store row) is absent or not
\* enabled, "Auto-transform disabled"; the message is shorter than its
\* min_message_length, "Message too short"; the rules it read are empty, "No
\* active rules"; none of them matches, "No matching rules"; and otherwise
\* should_transform=true.
C8_FirstApplicableReason ==
    \A s \in Slots :
        LET r == req[s]
        IN  (EvaluateDone(s) /\ r.status = 200) =>
                /\ r.cfg_from \in {"cache", "store"}
                /\ r.body.kind = "decision"
                /\ IF ~r.seen.present \/ ~r.seen.enabled
                   THEN r.body = Negative("Auto-transform disabled")
                   ELSE IF Len(r.context.message) < r.seen.min_message_length
                   THEN r.body = Negative("Message too short")
                   ELSE IF r.rules_read /\ r.rules = <<>>
                   THEN r.body = Negative("No active rules")
                   ELSE IF r.rules_read /\ ~SomeRuleMatches(r)
                   THEN r.body = Negative("No matching rules")
                   ELSE r.rules_read /\ r.body.should_transform

\* On the cache-hit path, with a cached configuration of min_message_length 5.
C8_Witness ==
    \E s \in Slots :
        /\ EvaluateDone(s)
        /\ req[s].status = 200
        /\ req[s].cfg_from = "cache"
        /\ req[s].body = Negative("Message too short")

\* C9: an evaluate that met a failing cache read or write, the store being
\* available, returns a decision and no error.
C9_CacheFailureFallsBack ==
    \A s \in Slots :
        (EvaluateDone(s) /\ req[s].cache_failed) =>
            /\ req[s].status = 200
            /\ req[s].body.kind = "decision"

\* The trigger of rule i of the rules request r read raises.
Raises(r, i) ==
    _evaluate_trigger(r.context, r.rules[i].trigger_type, r.rules[i].trigger_value,
                      r.current_time).exc # "none"

\* C10: an evaluate that ran the rule engine on rules of which one has a
\* trigger evaluator that raises returns a decision, never an error: a positive
\* one if another rule matches, and otherwise "No matching rules".
C10_EvaluatorFailureIsolated ==
    \A s \in Slots :
        LET r == req[s]
        IN  (EvaluateDone(s) /\ r.evaluated /\ r.rules # <<>>
             /\ \E i \in 1..Len(r.rules) : r.rules[i].enabled /\ Admits(r, i)
                                              /\ Raises(r, i)) =>
                /\ r.status = 200
                /\ r.body.kind = "decision"
                /\ r.body.should_transform <=> SomeRuleMatches(r)

\* ------------------------------------------------------------ properties: transform

\* The external call of the transform request of worker s has failed and the
\* request has returned.
TransformFailed(s) ==
    req[s].op = "transform" /\ req[s].pc = "done" /\ req[s].call \notin {"none", "ok"}

\* C3: when the external call of a transform has failed, the log row created
\* by the evaluate whose result the transform was called with has status
\* failed and an error text, and transform has returned HTTP 500.
C3_FailureMarksRowFailed ==
    \A s \in Slots :
        TransformFailed(s) =>
            /\ req[s].status = 500
            /\ logs[req[s].row].status = "failed"
            /\ logs[req[s].row].error_message # None

\* C4: a transform whose external call succeeded and whose UPDATE matched some
\* row (tenant, user, status=triggered, triggered within the last 60 seconds)
\* has updated exactly one row, the latest of those it matched.
C4_UpdatesOnlyLatestRow ==
    \A s \in Slots :
        LET r == req[s]
        IN  (r.op = "transform" /\ r.status = 200 /\ r.matched # {}) =>
                /\ Cardinality(r.updated) = 1
                /\ \A i \in r.updated : \A j \in r.matched : j <= i

\* The transform request of worker s has returned, with a result or an error.
TransformReturned(s) == req[s].op = "transform" /\ req[s].status # 0

\* C11: once a transform called with the context and result of an evaluate has
\* returned, whatever the outcome of the external call and however long it
\* took, the log row that evaluate created has status transformed or failed.
C11_RowLeavesTriggered ==
    \A s \in Slots :
        TransformReturned(s) =>
            logs[req[s].row].status \in {"transformed", "failed"}

\* ------------------------------------------------------------ properties: administration

AdminWrite(s) == req[s].op \in {"update_config", "create_rule"}

\* C12: in update_config and create_rule the cache entry of the tenant (config
\* entry or rules entry) is deleted only after the store write is committed,
\* and a write that has returned success has deleted it: the key was not in the
\* cache when the delete returned.
C12_DeleteAfterCommit ==
    \A s \in Slots :
        AdminWrite(s) =>
            /\ req[s].deleted => req[s].committed
            /\ (req[s].pc = "done" /\ req[s].status = 200) =>
                  /\ req[s].committed
                  /\ req[s].deleted
                  /\ req[s].entry_gone

\* An update_config and a create_rule that found the tenant's entry in the
\* cache and have returned success.
C12_Witness ==
    /\ \E s \in Slots : /\ req[s].op = "update_config" /\ req[s].pc = "done"
                         /\ req[s].status = 200 /\ req[s].had_entry
    /\ \E s \in Slots : /\ req[s].op = "create_rule" /\ req[s].pc = "done"
                         /\ req[s].status = 200 /\ req[s].had_entry

\* ------------------------------------------------------------ properties: the log

\* The evaluate requests that return in the step, and those of them that
\* return should_transform=true.
Returning == {s \in Slots : /\ req'[s].op = "evaluate" /\ req'[s].pc = "done"
                            /\ req[s] # req'[s]}

ReturningPositive == {s \in Returning : /\ req'[s].status = 200
                                        /\ req'[s].body.kind = "decision"
                                        /\ req'[s].body.should_transform}

\* C13: a step of the service appends a row to auto_transform_logs exactly when
\* an evaluate returns should_transform=true in it, one row per such return,
\* with status triggered, the rule_id of the returned result and the tenant,
\* user and message of the context; the row is in the store in the state in
\* which the decision is returned, and no other step adds or changes a row.
C13_OneRowPerPositiveDecision ==
    [][/\ Len(logs') = Len(logs) + Cardinality(ReturningPositive)
       /\ SubSeq(logs', 1, Len(logs)) = logs
       /\ \A s \in ReturningPositive :
             /\ req'[s].row = Len(logs')
             /\ logs'[Len(logs')].status = "triggered"
             /\ logs'[Len(logs')].rule_id = req'[s].body.result.rule_id
             /\ logs'[Len(logs')].tenant_id = req'[s].context.tenant_id
             /\ logs'[Len(logs')].user_id = req'[s].context.user_id
             /\ logs'[Len(logs')].original_message = req'[s].context.message
       /\ \A s \in Returning \ ReturningPositive : req'[s].row = 0]_vars

\* Two evaluates have returned, one with should_transform=true and its row, one
\* with a negative decision and no row.
C13_Witness ==
    \E s1, s2 \in Slots :
        /\ EvaluateDone(s1) /\ req[s1].status = 200 /\ req[s1].body.should_transform
        /\ req[s1].row = Len(logs) /\ Len(logs) = 1
        /\ logs[1].status = "triggered"
        /\ EvaluateDone(s2) /\ req[s2].status = 200 /\ ~req[s2].body.should_transform
        /\ req[s2].row = 0

\* ------------------------------------------------------------ properties: absent configuration

\* C14: for a tenant with no row in auto_transform_configs, an evaluate that
\* has returned has returned HTTP 200 with should_transform=false and reason
\* "Auto-transform disabled", and a get_config has returned enabled=false.
C14_AbsentConfigIsDisabled ==
    \A s \in Slots :
        /\ (EvaluateDone(s) /\ ~db_configs[req[s].context.tenant_id].present) =>
              /\ req[s].status = 200
              /\ req[s].body = Negative("Auto-transform disabled")
        /\ (req[s].op = "get_config" /\ req[s].pc = "done"
               /\ ~db_configs[req[s].tenant_id].present) =>
              /\ req[s].status = 200
              /\ req[s].body.kind = "config"
              /\ ~req[s].body.enabled

\* An evaluate and a get_config of tenant T2, which has no configuration, have
\* both returned.
C14_Witness ==
    /\ ~db_configs["T2"].present
    /\ \E s \in Slots : /\ EvaluateDone(s) /\ req[s].context.tenant_id = "T2"
                         /\ req[s].cfg_from = "store"
                         /\ req[s].body = Negative("Auto-transform disabled")
    /\ \E s \in Slots : /\ req[s].op = "get_config" /\ req[s].pc = "done"
                         /\ req[s].tenant_id = "T2" /\ ~req[s].body.enabled

\* ------------------------------------------------------------ properties: metrics

\* C15: the step in which track_metrics fails to write the counters leaves the
\* status and the body of the response of its transform as they were decided,
\* HTTP 200 with success=true, and leaves every log row as it was.
C15_MetricsFailureNotPropagated ==
    [][\A s \in Slots :
          (req[s].pc = "metrics" /\ req'[s].pc = "done" /\ req'[s].metrics_failed) =>
              /\ req'[s].status = 200
              /\ req'[s].status = req[s].status
              /\ req'[s].body = req[s].body
              /\ req'[s].body.kind = "transformed"
              /\ req'[s].body.success
              /\ logs' = logs
              /\ \A i \in req'[s].updated : logs'[i].status = "transformed"]_vars

\* A transform that updated its row has ended with a failed metric write.
C15_Witness ==
    \E s \in Slots :
        /\ req[s].op = "transform" /\ req[s].pc = "done"
        /\ req[s].metrics_failed
        /\ req[s].updated # {}
        /\ metrics = <<>>

\* ------------------------------------------------------------ properties: RateLimiter

\* The callers that hold the lock: in the states between steps, those suspended
\* in asyncio.sleep inside the with block.
Holders == {c \in Callers : lim.pc[c] = "sleeping"}

\* C16: any two consecutive completions of acquire are at least min_interval
\* apart on the loop's clock, every completion is the value last_request_time
\* then has, and at most one caller at a time is inside the with block, where
\* last_request_time is read and written, and it holds the lock.
C16_MinIntervalBetweenCompletions ==
    /\ \A i \in 2..Len(lim.returned) :
          lim.returned[i] - lim.returned[i - 1] >= min_interval
    /\ lim.returned # <<>> => lim.last_request_time = lim.returned[Len(lim.returned)]
    /\ Cardinality(Holders) <= 1
    /\ Holders # {} => lim.locked

\* Three callers have completed, one after waiting for the lock and sleeping,
\* exactly min_interval after the one before it.
C16_Witness ==
    /\ Len(lim.returned) = 3
    /\ lim.returned[3] - lim.returned[2] = min_interval
    /\ \E c \in Callers : lim.waited[c] /\ lim.slept[c] /\ lim.pc[c] = "returned"

\* C17: every caller that has suspended in acquire, on the lock or in
\* asyncio.sleep, eventually returns from it.
C17_EveryCallerReturns ==
    \A c \in Callers :
        (lim.pc[c] \in {"waiting", "sleeping"}) ~> (lim.pc[c] = "returned")

\* All callers have returned; one waited for the lock behind another waiter, and
\* one slept.
C17_Witness ==
    /\ \A c \in Callers : lim.pc[c] = "returned"
    /\ Cardinality({c \in Callers : lim.waited[c]}) = 2
    /\ \E c \in Callers : lim.slept[c]

\* ------------------------------------------------------------ properties: SDK validation

\* The dict lacks message, user_id, tenant_id or platform, or holds an empty
\* value for it.
MissingRequired(d) ==
    \/ "message" \notin DOMAIN d \/ d["message"] = <<>>
    \/ \E k \in {"user_id", "tenant_id", "platform"} : k \notin DOMAIN d \/ d[k] = ""

\* C18: a call of the SDK's evaluate with a context that lacks message,
\* user_id, tenant_id or platform, or has it empty, raises ValidationError and
\* sends no request: no worker takes a request, and the cache, the store and
\* the log are as before the call.  Every request the service evaluates has
\* the four fields non-empty.
C18_InvalidContextNotSent ==
    [][/\ (sdk' # sdk /\ MissingRequired(sdk'.context_data)) =>
             /\ sdk'.outcome = "ValidationError"
             /\ sdk'.sent = sdk.sent
             /\ req' = req
             /\ started' = started
             /\ logs' = logs
             /\ cache_config' = cache_config /\ cache_rules' = cache_rules
             /\ db_configs' = db_configs /\ db_rules' = db_rules
       /\ \A s \in Slots :
             req'[s].pc # "idle" =>
                 /\ req'[s].op = "evaluate"
                 /\ req'[s].context.message # <<>>
                 /\ req'[s].context.user_id # ""
                 /\ req'[s].context.tenant_id # ""
                 /\ req'[s].context.platform # ""]_vars

\* One request was sent and evaluated, and a call without platform has raised
\* ValidationError and sent none.
C18_Witness ==
    /\ sdk.outcome = "ValidationError"
    /\ "platform" \notin DOMAIN sdk.context_data
    /\ sdk.sent = 1
    /\ started = 1
    /\ Len(logs) = 1

\* ------------------------------------------------------------ properties: trigger evaluators

TrigReturned(trigger_type) == trig.pc = "returned" /\ trig.trigger_type = trigger_type

\* Keyword kw occurs in the message of the call, letter case ignored.
Occurs(kw) == IsSubstring(Lower(kw), Lower(trig.context.message))

\* The positions of the configured keywords that occur in the message.
OccurringAt == {i \in 1..Len(trig.trigger_value.keywords) :
                   Occurs(trig.trigger_value.keywords[i])}

\* C19: the keyword trigger returns without error; it matches iff some
\* configured keyword occurs in the message as a case-insensitive substring;
\* on a match the confidence is (keywords found) / (keywords configured), in
\* (0, 1], and the reason lists the found keywords, as configured and in
\* their order; without a match, and so for an empty list, the confidence is 0.
C19_KeywordMatchAndConfidence ==
    TrigReturned("keyword") =>
        LET keywords == trig.trigger_value.keywords
            out == trig.out
        IN  /\ out.exc = "none"
            /\ out.matches <=> OccurringAt # {}
            /\ keywords = <<>> => ~out.matches
            /\ out.matches =>
                  /\ RatEq(out.confidence, Rat(Cardinality(OccurringAt), Len(keywords)))
                  /\ RatLess(Rat(0, 1), out.confidence)
                  /\ ~RatLess(Rat(1, 1), out.confidence)
                  /\ out.reason = <<"Contains keywords">> \o SelectSeq(keywords, Occurs)
            /\ ~out.matches =>
                  /\ RatEq(out.confidence, Rat(0, 1))
                  /\ out.reason = <<"No keywords found">>

\* Four keywords, two of them in "Fix NOW", one of these written in capitals:
\* confidence 0.5.
C19_Witness ==
    /\ TrigReturned("keyword")
    /\ trig.context.message = MSG_LONG
    /\ trig.trigger_value.keywords = <<KW_UPPER, KW_BAD, KW_FIX, KW_BAD>>
    /\ trig.out.matches
    /\ RatEq(trig.out.confidence, Rat(1, 2))
    /\ trig.out.reason = <<"Contains keywords", KW_UPPER, KW_FIX>>

\* The threshold t and the operator of a sentiment call whose config gives both,
\* and the polarity p of its message, in hundredths.
SentimentCall ==
    /\ TrigReturned("sentiment")
    /\ trig.context.polarity.exc = "none"
    /\ DOMAIN trig.trigger_value = {"operator", "threshold"}

\* C20: for polarity p and threshold t the sentiment trigger matches iff
\* (operator = less_than and p < t) or (operator = greater_than and p > t) or
\* (operator = equals and |p - t| < 0.1), and so never for another operator;
\* on a match the confidence is min(1.0, |p - t| / 2), and without one it is 0.
C20_SentimentMatchAndConfidence ==
    SentimentCall =>
        LET p == trig.context.polarity.value
            t == trig.trigger_value.threshold
            operator == trig.trigger_value.operator
            distance == IF p < t THEN t - p ELSE p - t
            out == trig.out
        IN  /\ out.exc = "none"
            /\ out.matches <=> \/ operator = "less_than" /\ p < t
                               \/ operator = "greater_than" /\ p > t
                               \/ operator = "equals" /\ distance < 10
            /\ operator \notin {"less_than", "greater_than", "equals"} => ~out.matches
            /\ out.matches =>
                  IF distance >= 200 THEN RatEq(out.confidence, Rat(1, 1))
                  ELSE RatEq(out.confidence, Rat(distance, 200))
            /\ ~out.matches => RatEq(out.confidence, Rat(0, 1))

\* {less_than, 0} has matched polarity -0.4, with confidence 0.2.
C20_Witness ==
    /\ SentimentCall
    /\ trig.trigger_value = [operator |-> "less_than", threshold |-> 0]
    /\ trig.context.polarity.value = -40
    /\ trig.out.matches
    /\ RatEq(trig.out.confidence, Rat(1, 5))

\* C21: the recipient trigger with ids configured matches iff the configured
\* ids and the recipient ids of the context have an id in common, with
\* confidence 0.9; with no ids and roles configured it matches with confidence
\* 0.8; with neither it does not match.
C21_RecipientIdsBeforeRoles ==
    TrigReturned("recipient") =>
        LET target_ids == Get(trig.trigger_value, "ids", <<>>)
            target_roles == Get(trig.trigger_value, "roles", <<>>)
            common == ListSet(trig.context.recipient_ids) \cap ListSet(target_ids)
            out == trig.out
        IN  /\ out.exc = "none"
            /\ target_ids # <<>> =>
                  /\ out.matches <=> common # {}
                  /\ out.matches => RatEq(out.confidence, Rat(9, 10))
            /\ (target_ids = <<>> /\ target_roles # <<>>) =>
                  /\ out.matches
                  /\ RatEq(out.confidence, Rat(8, 10))
            /\ (target_ids = <<>> /\ target_roles = <<>>) => ~out.matches

\* C22: the channel trigger with no channel id in the context does not match;
\* with a channel id that is in the configured ids it matches with confidence
\* 1.0; otherwise it matches, with confidence 0.8, iff a type is configured
\* and occurs in the channel id (letter case ignored), whatever the type; in
\* every other case it does not match.
C22_ChannelIdsThenType ==
    TrigReturned("channel") =>
        LET channel_id == trig.context.channel_id
            channel_ids == Get(trig.trigger_value, "ids", <<>>)
            channel_type == Get(trig.trigger_value, "type", None)
            out == trig.out
        IN  /\ out.exc = "none"
            /\ IF channel_id = None \/ channel_id = <<>>
               THEN ~out.matches
               ELSE IF InList(channel_id, channel_ids)
               THEN out.matches /\ RatEq(out.confidence, Rat(1, 1))
               ELSE IF /\ channel_type # None
                       /\ IsSubstring(Lower(channel_type), Lower(channel_id))
               THEN out.matches /\ RatEq(out.confidence, Rat(8, 10))
               ELSE ~out.matches

\* The bounds of a time call, in minutes of the day; none of the model's time
\* configs of this specification is malformed.
TimeAfter == fromisoformat(Get(trig.trigger_value, "after", None))
TimeBefore == fromisoformat(Get(trig.trigger_value, "before", None))

\* C23: the time trigger matches, with confidence 0.9, iff the current time of
\* day is in [after, before): not earlier than after when after is set, and
\* earlier than before when before is set.
C23_TimeWindowHalfOpen ==
    TrigReturned("time") =>
        LET inside ==
                /\ "after" \in DOMAIN trig.trigger_value =>
                        trig.current_time >= TimeAfter.value
                /\ "before" \in DOMAIN trig.trigger_value =>
                        trig.current_time < TimeBefore.value
        IN  /\ trig.out.exc = "none"
            /\ trig.out.matches <=> inside
            /\ trig.out.matches => RatEq(trig.out.confidence, Rat(9, 10))

\* The positions of the configured patterns that compile and are found in the
\* message of the call.
PatternHits ==
    LET ps == trig.trigger_value.patterns
    IN  {i \in 1..Len(ps) :
            ps[i].ok /\ IsSubstring(Lower(ps[i].lit), Lower(trig.context.message))}

FirstHit == CHOOSE i \in PatternHits : \A j \in PatternHits : i <= j

\* C24: the pattern trigger returns without error whatever patterns are
\* malformed; it matches iff some well-formed pattern of the list is found in
\* the message, with confidence 0.9 and a reason naming the first such pattern
\* in list order; otherwise the result is "No pattern match" with confidence 0.
C24_FirstWellFormedPatternWins ==
    TrigReturned("pattern") =>
        /\ trig.out.exc = "none"
        /\ trig.out.matches <=> PatternHits # {}
        /\ PatternHits # {} =>
              /\ RatEq(trig.out.confidence, Rat(9, 10))
              /\ trig.out.reason =
                    <<"Pattern match", trig.trigger_value.patterns[FirstHit]>>
        /\ PatternHits = {} =>
              /\ RatEq(trig.out.confidence, Rat(0, 1))
              /\ trig.out.reason = <<"No pattern match">>

\* A malformed pattern stands in the list before the pattern that matches, and
\* a second matching pattern follows the winner.
C24_Witness ==
    /\ TrigReturned("pattern")
    /\ trig.out.matches
    /\ \E i \in 1..Len(trig.trigger_value.patterns) :
          /\ ~trig.trigger_value.patterns[i].ok
          /\ i < FirstHit
    /\ \E j \in PatternHits : j > FirstHit

\* C25: the reconnection attempts of the WebSocketClient are bounded: the
\* counter reconnect_attempts never exceeds max_reconnect_attempts, after a
\* connection loss the client calls run_forever at most max_reconnect_attempts
\* times without a successful open in between, and once the counter is at the
\* limit and the connection is down the run loop is not going round again.
C25_ReconnectAttemptsBounded ==
    /\ wsc.reconnect_attempts <= wsc.max_reconnect_attempts
    /\ wsc.lost => wsc.connects <= wsc.max_reconnect_attempts
    /\ (wsc.lost /\ ~wsc.stop_flag
            /\ wsc.connects >= wsc.max_reconnect_attempts
            /\ wsc.reconnect_attempts >= wsc.max_reconnect_attempts)
          => wsc.pc \in {"running", "open", "ended"}

\* ------------------------------------------------------------ properties: transform

\* The transform request of worker s has made its call to the external service.
Called(s) ==
    /\ req[s].op = "transform"
    /\ req[s].pc \in {"await", "update_ok", "update_failed", "metrics", "done"}

\* C26: a transform request makes exactly one call to the external transform
\* service, whatever the outcome of the call: never a second one after a
\* failure or a timeout; the body of the call carries the message of the
\* context as text and the transformation_type, the intensity and the options
\* of the evaluation result, unchanged.
C26_OneCallWithResultPayload ==
    \A s \in Slots :
        req[s].op = "transform" =>
            /\ req[s].calls <= 1
            /\ req[s].calls = Len(req[s].sent)
            /\ Called(s) =>
                  /\ req[s].calls = 1
                  /\ req[s].sent[1].text = req[s].context.message
                  /\ req[s].sent[1].transformation_type =
                        req[s].transformation.transformation_type
                  /\ req[s].sent[1].intensity =
                        req[s].transformation.transformation_intensity
                  /\ req[s].sent[1].options =
                        req[s].transformation.transformation_options

\* A transform whose call timed out has answered 500, and another whose call
\* carried the transformation of the second tenant's rule has been made.
C26_Witness ==
    /\ \E s \in Slots :
          /\ Called(s) /\ req[s].pc = "done"
          /\ req[s].call = "timeout" /\ req[s].status = 500
    /\ \E s \in Slots :
          /\ Called(s)
          /\ req[s].sent[1].transformation_type = "clarify"
          /\ req[s].sent[1].intensity = 3

Terminal(row_) == row_.status \in {"transformed", "failed"}

\* C27: in every step, no row of the log is removed, a row that is transformed
\* or failed stays exactly as it is, a triggered row stays triggered or becomes
\* transformed or failed, and a row that is added is triggered.
C27_StatusOnlyLeavesTriggered ==
    [][/\ Len(logs') >= Len(logs)
       /\ \A i \in 1..Len(logs) :
             /\ Terminal(logs[i]) => logs'[i] = logs[i]
             /\ logs'[i].status \in {"triggered", "transformed", "failed"}
             /\ logs'[i].status = "triggered" => logs'[i] = logs[i]
       /\ \A i \in (Len(logs) + 1)..Len(logs') :
             /\ logs'[i].status = "triggered"
             /\ logs'[i].transformed_message = None
             /\ logs'[i].error_message = None
             /\ logs'[i].processed_at = None]_vars

\* A second transform for a row has finished, inside the row's correlation
\* window, after the row became transformed or failed, and has updated nothing.
C27_Witness ==
    \E s \in Slots :
        /\ req[s].op = "transform"
        /\ req[s].pc \in {"metrics", "done"}
        /\ req[s].matched = {}
        /\ Terminal(logs[req[s].row])
        /\ logs[req[s].row].triggered_at > now - LOG_WINDOW

\* Worker s takes a step of a transform request.
TransformStep(s) == req'[s] # req[s] /\ req'[s].op = "transform"

\* C28: a step of a transform request for tenant T and user U leaves every log
\* row of another tenant or of another user as it is, adds no row, and leaves
\* the cached and the stored configurations and rules of all tenants as they are.
C28_TransformFrame ==
    [][\A s \in Slots :
          TransformStep(s) =>
              /\ Len(logs') = Len(logs)
              /\ \A i \in 1..Len(logs) :
                    (\/ logs[i].tenant_id # req'[s].context.tenant_id
                     \/ logs[i].user_id # req'[s].context.user_id)
                        => logs'[i] = logs[i]
              /\ cache_config' = cache_config
              /\ cache_rules' = cache_rules
              /\ db_configs' = db_configs
              /\ db_rules' = db_rules]_vars

\* The rows that a finished transform request would have reached but for their
\* tenant or their user: triggered and inside the window.
OthersInReach(s) ==
    {i \in 1..Len(logs) :
        /\ logs[i].status = "triggered"
        /\ logs[i].triggered_at > now - LOG_WINDOW
        /\ \/ logs[i].tenant_id # req[s].context.tenant_id
           \/ logs[i].user_id # req[s].context.user_id}

\* A transform has updated its row while a triggered row of another user of the
\* same tenant was inside the window and the caches held the tenant's entries.
C28_Witness ==
    \E s \in Slots :
        /\ req[s].op = "transform"
        /\ req[s].pc \in {"metrics", "done"}
        /\ req[s].updated # {}
        /\ \E i \in OthersInReach(s) : logs[i].tenant_id = req[s].context.tenant_id
        /\ cache_config[req[s].context.tenant_id].present
        /\ cache_rules[req[s].context.tenant_id].present

\* ------------------------------------------------------------ properties: administrative writes

\* C29: an update_config or a create_rule that has answered with an error has
\* left the store as it was: its write is not committed, also when it is the
\* cache delete that failed.
C29_ErrorLeavesStoreUnchanged ==
    \A s \in Slots :
        (AdminWrite(s) /\ req[s].pc = "done" /\ req[s].status = 500)
            => ~req[s].committed

\* ------------------------------------------------------------ properties: the config cache

\* C30: a configuration that evaluate is about to write to the cache was
\* present and enabled in the store when it was loaded, and so every entry of
\* the config cache has enabled = true.
C30_CachedConfigEnabled ==
    /\ \A s \in Slots :
          (req[s].op = "evaluate" /\ req[s].pc = "cache_config") =>
              /\ req[s].store_at_read.present
              /\ req[s].store_at_read.enabled
              /\ req[s].config = req[s].store_at_read
    /\ \A t \in Tenants :
          cache_config[t].present => cache_config[t].val.enabled

\* An entry written by evaluate is in the cache while the tenant's row in the
\* store has since been disabled, and an evaluate has read that entry.
C30_Witness ==
    \E t \in Tenants :
        /\ cache_config[t].present
        /\ db_configs[t].present /\ ~db_configs[t].enabled
        /\ \E s \in Slots : /\ req[s].op = "evaluate"
                             /\ req[s].context.tenant_id = t
                             /\ req[s].cfg_from = "cache"

====
